---- MODULE Spec2Model ----
(***************************************************************************)
(* Model of sim/src/mechanics/parking.rs: the parking store                *)
(* (ParkingSimState), its reservation / commit protocol, the free-spot     *)
(* enumerator and the nearest-free-spot search.                            *)
(*                                                                         *)
(* Distances are integers (one unit = one metre).  A Rust panic (assert!,  *)
(* expect, indexing a missing key) is modelled by failed = TRUE, with the  *)
(* fields left as they are at the point of the panic; nothing runs after.  *)
(***************************************************************************)
EXTENDS Integers, Sequences, FiniteSets, TLC

VARIABLES
    map,                      \* the road network handed to new() (its name)
    parked_cars,              \* BTreeMap<CarID, ParkedCar>
    occupants,                \* BTreeMap<ParkingSpot, CarID>
    reserved_spots,           \* BTreeSet<ParkingSpot>
    onstreet_lanes,           \* BTreeMap<LaneID, ParkingLane>
    driving_to_parking_lanes, \* MultiMap<LaneID, LaneID>
    num_spots_per_offstreet,  \* BTreeMap<BuildingID, usize>
    driving_to_offstreet,     \* MultiMap<LaneID, BuildingID>
    num_spots_per_lot,        \* BTreeMap<ParkingLotID, usize>
    driving_to_lots,          \* MultiMap<LaneID, ParkingLotID>
    events,                   \* Vec<Event>
    failed,                   \* TRUE once a call has panicked
    last,                     \* the call that produced this state
    returned,                 \* what the caller got from collect_events or a query
    drivers,                  \* the callers: each vehicle's step in its trip
    search                    \* the running path_to_free_parking_spot call

indexVars == <<onstreet_lanes, driving_to_parking_lanes, num_spots_per_offstreet,
               driving_to_offstreet, num_spots_per_lot, driving_to_lots>>
vars == <<map, parked_cars, occupants, reserved_spots, onstreet_lanes,
          driving_to_parking_lanes, num_spots_per_offstreet, driving_to_offstreet,
          num_spots_per_lot, driving_to_lots, events, failed, last,
          returned, drivers, search>>

----------------------------------------------------------------------------
(* Bounds of the model. *)

\* Number of distinct vehicles the callers use (CarID 1..NumCars).
NumCars == 2
\* Largest number of undrained events: the caller drains the log each step.
MaxEvents == 2

----------------------------------------------------------------------------
(* Generic helpers for BTreeMap / MultiMap / Vec values. *)

None == [none |-> TRUE]

MapPut(f, k, v) == [x \in (DOMAIN f) \cup {k} |-> IF x = k THEN v ELSE f[x]]

MapRemove(f, k) == [x \in (DOMAIN f) \ {k} |-> f[x]]

EmptyMap == [x \in {} |-> x]

\* MultiMap::get: the set stored under k, empty when k has no entry.
MultiMapGet(mm, k) == IF k \in DOMAIN mm THEN mm[k] ELSE {}

MinOf(S) == CHOOSE x \in S : \A y \in S : x <= y

Min2(a, b) == IF a <= b THEN a ELSE b

RECURSIVE SortedSeq(_)
\* The elements of a finite set of integers in increasing order (BTree iteration).
SortedSeq(S) == IF S = {} THEN <<>> ELSE <<MinOf(S)>> \o SortedSeq(S \ {MinOf(S)})

RECURSIVE Concat(_)
\* Flattens a sequence of sequences.
Concat(ss) == IF ss = <<>> THEN <<>> ELSE Head(ss) \o Concat(Tail(ss))

SeqToSet(s) == {s[i] : i \in 1..Len(s)}

----------------------------------------------------------------------------
(* Values. *)

\* ParkingSpot: Onstreet(LaneID, idx) | Offstreet(BuildingID, idx) | Lot(ParkingLotID, idx)
Onstreet(l, idx) == [kind |-> "Onstreet", id |-> l, idx |-> idx]
Offstreet(b, idx) == [kind |-> "Offstreet", id |-> b, idx |-> idx]
Lot(pl, idx) == [kind |-> "Lot", id |-> pl, idx |-> idx]

Position(l, d) == [lane |-> l, dist_along |-> d]

\* Vehicle lengths in the model: car 1 is 4 long, every other car 6.
VehicleLength(c) == IF c = 1 THEN 4 ELSE 6

Vehicle(c) == [id |-> c, length |-> VehicleLength(c), owner |-> c]

ParkedCar(c, spot) == [vehicle |-> Vehicle(c), spot |-> spot]

CarReachedParkingSpot(c, spot) == [ev |-> "CarReachedParkingSpot", car |-> c, spot |-> spot]
CarLeftParkingSpot(c, spot) == [ev |-> "CarLeftParkingSpot", car |-> c, spot |-> spot]

\* map_model::PARKING_SPOT_LENGTH
PARKING_SPOT_LENGTH == 8

CarIDs == 1..NumCars

----------------------------------------------------------------------------
(* The road network (map_model::Map), read-only.  A lane has a type, a     *)
(* length, a blackhole mark, a number of parking spots, the driving lane   *)
(* its road pairs it with (0: none) and its closest sidewalk (0: none).    *)

LaneRec(t, len, bh, n, drv, sw) ==
    [lane_type |-> t, length |-> len, parking_blackhole |-> bh,
     number_parking_spots |-> n, driving |-> drv, sidewalk |-> sw]

\* Building.parking: Some(OffstreetParking {public_garage_name, num_spots, driving_pos}) or None
BuildingRec(has, pub, n, l, d) ==
    [has_parking |-> has, public_garage |-> pub, num_spots |-> n,
     driving_pos |-> Position(l, d)]

\* ParkingLot: spots (their number), driving_pos
LotRec(n, l, d) == [num_spots |-> n, driving_pos |-> Position(l, d)]

\* Turn: id (src, dst) and the length of its geometry
TurnRec(s, d, len) == [src |-> s, dst |-> d, length |-> len]

\* Two driving lanes 1 <-> 2 in a cycle and a blackhole driving lane 3.
\* Parking lane 11 (one spot) feeds lane 1; parking lane 13 feeds the
\* blackhole.  Building 1 is private, on lane 2; building 2 is on the
\* blackhole.  Lot 1 is on lane 2; lot 2 is on the blackhole.
StoreMap ==
    [lanes |-> (1 :> LaneRec("Driving", 32, FALSE, 0, 0, 0)) @@
               (2 :> LaneRec("Driving", 30, FALSE, 0, 0, 0)) @@
               (3 :> LaneRec("Driving", 30, TRUE, 0, 0, 0)) @@
               (11 :> LaneRec("Parking", 32, FALSE, 1, 1, 21)) @@
               (13 :> LaneRec("Parking", 30, FALSE, 1, 3, 21)) @@
               (21 :> LaneRec("Sidewalk", 32, FALSE, 0, 0, 0)),
     buildings |-> (1 :> BuildingRec(TRUE, FALSE, 1, 2, 10)) @@
                   (2 :> BuildingRec(TRUE, TRUE, 1, 3, 10)),
     lots |-> (1 :> LotRec(1, 2, 20)) @@
              (2 :> LotRec(1, 3, 20)),
     turns |-> {TurnRec(1, 2, 5), TurnRec(2, 1, 5), TurnRec(2, 3, 4)}]

\* Five driving lanes.  From lane 1 the turns lead to lane 2 (long) and to
\* lane 3 (short); both lead on to lane 4, lane 3 also to lane 5, and lane 4
\* leads back to lane 1.  Lane 1 has lot 1; lane 2 has the parking lane 12
\* (two spots); lane 3 has the private building 1 and, at its very
\* beginning, lot 3; lane 4 has lot 4; lane 5 has the public garage 2.
SearchMap ==
    [lanes |-> (1 :> LaneRec("Driving", 10, FALSE, 0, 0, 0)) @@
               (2 :> LaneRec("Driving", 50, FALSE, 0, 0, 0)) @@
               (3 :> LaneRec("Driving", 5, FALSE, 0, 0, 0)) @@
               (4 :> LaneRec("Driving", 8, FALSE, 0, 0, 0)) @@
               (5 :> LaneRec("Driving", 8, FALSE, 0, 0, 0)) @@
               (12 :> LaneRec("Parking", 50, FALSE, 2, 2, 22)) @@
               (22 :> LaneRec("Sidewalk", 50, FALSE, 0, 0, 0)),
     buildings |-> (1 :> BuildingRec(TRUE, FALSE, 1, 3, 2)) @@
                   (2 :> BuildingRec(TRUE, TRUE, 1, 5, 3)),
     lots |-> (1 :> LotRec(1, 1, 5)) @@
              (3 :> LotRec(1, 3, 0)) @@
              (4 :> LotRec(1, 4, 3)),
     turns |-> {TurnRec(1, 2, 1), TurnRec(1, 3, 2), TurnRec(2, 4, 1),
                TurnRec(3, 4, 1), TurnRec(3, 5, 20), TurnRec(4, 1, 1)}]

\* The networks the store is built from, by name: the variable map holds
\* the name, MapOf(map) is the network itself.
Maps == {"StoreMap"}

\* Three driving lanes with turns in cycles: 1 -> 2 -> 1, 2 -> 3 -> 2 and
\* 1 -> 3, so that lane 3 is reached by two routes and every lane lies on
\* a cycle.  Lane 1 has lot 1, lane 2 the private building 1, lane 3 lot 3.
LoopMap ==
    [lanes |-> (1 :> LaneRec("Driving", 10, FALSE, 0, 0, 0)) @@
               (2 :> LaneRec("Driving", 20, FALSE, 0, 0, 0)) @@
               (3 :> LaneRec("Driving", 10, FALSE, 0, 0, 0)),
     buildings |-> (1 :> BuildingRec(TRUE, FALSE, 1, 2, 5)),
     lots |-> (1 :> LotRec(1, 1, 5)) @@
              (3 :> LotRec(1, 3, 5)),
     turns |-> {TurnRec(1, 2, 1), TurnRec(2, 1, 1), TurnRec(2, 3, 1),
                TurnRec(3, 2, 1), TurnRec(1, 3, 40)}]

\* One driving lane with the parking lane 11 (one spot) and lot 1
EventsMap ==
    [lanes |-> (1 :> LaneRec("Driving", 32, FALSE, 0, 0, 0)) @@
               (11 :> LaneRec("Parking", 32, FALSE, 1, 1, 21)) @@
               (21 :> LaneRec("Sidewalk", 32, FALSE, 0, 0, 0)),
     buildings |-> (1 :> BuildingRec(FALSE, FALSE, 0, 1, 10)),
     lots |-> (1 :> LotRec(1, 1, 20)),
     turns |-> {}]

\* Three networks of one driving lane, each with one parking entity of
\* three spots: the parking lane 11, the private building 1, the lot 1.
LaneMap ==
    [lanes |-> (1 :> LaneRec("Driving", 40, FALSE, 0, 0, 0)) @@
               (11 :> LaneRec("Parking", 40, FALSE, 3, 1, 21)) @@
               (21 :> LaneRec("Sidewalk", 40, FALSE, 0, 0, 0)),
     buildings |-> (1 :> BuildingRec(FALSE, FALSE, 0, 1, 10)),
     lots |-> EmptyMap,
     turns |-> {}]

GarageMap ==
    [lanes |-> (1 :> LaneRec("Driving", 40, FALSE, 0, 0, 0)),
     buildings |-> (1 :> BuildingRec(TRUE, FALSE, 3, 1, 10)),
     lots |-> EmptyMap,
     turns |-> {}]

LotMap ==
    [lanes |-> (1 :> LaneRec("Driving", 40, FALSE, 0, 0, 0)),
     buildings |-> (1 :> BuildingRec(FALSE, FALSE, 0, 1, 10)),
     lots |-> (1 :> LotRec(3, 1, 20)),
     turns |-> {}]

\* The networks the per-entity queries are followed on
QueryMaps == {"LaneMap", "GarageMap", "LotMap"}

\* One driving lane with entities of no capacity next to entities with
\* one spot: the parking lane 11 is too short for a spot, building 1 has
\* off-street parking of no spots, lot 1 has no spots; the parking lane 12
\* and lot 2 have one spot each and building 2 has no parking at all.
ZeroMap ==
    [lanes |-> (1 :> LaneRec("Driving", 40, FALSE, 0, 0, 0)) @@
               (11 :> LaneRec("Parking", 12, FALSE, 0, 1, 21)) @@
               (12 :> LaneRec("Parking", 40, FALSE, 1, 1, 21)) @@
               (21 :> LaneRec("Sidewalk", 40, FALSE, 0, 0, 0)),
     buildings |-> (1 :> BuildingRec(TRUE, FALSE, 0, 1, 10)) @@
                   (2 :> BuildingRec(FALSE, FALSE, 0, 1, 30)),
     lots |-> (1 :> LotRec(0, 1, 20)) @@
              (2 :> LotRec(1, 1, 25)),
     turns |-> {}]

\* A driving lane 1 and a blackhole driving lane 3.  The parking lane 11
\* is well formed; 13 is on the blackhole; 14 has no sidewalk; 16 is on the
\* blackhole and has no sidewalk.  Lot 1 is on lane 1.
FaultyMap ==
    [lanes |-> (1 :> LaneRec("Driving", 40, FALSE, 0, 0, 0)) @@
               (3 :> LaneRec("Driving", 40, TRUE, 0, 0, 0)) @@
               (11 :> LaneRec("Parking", 40, FALSE, 1, 1, 21)) @@
               (13 :> LaneRec("Parking", 40, FALSE, 1, 3, 21)) @@
               (14 :> LaneRec("Parking", 40, FALSE, 1, 1, 0)) @@
               (16 :> LaneRec("Parking", 40, FALSE, 1, 3, 0)) @@
               (21 :> LaneRec("Sidewalk", 40, FALSE, 0, 0, 0)),
     buildings |-> (1 :> BuildingRec(FALSE, FALSE, 0, 1, 10)),
     lots |-> (1 :> LotRec(1, 1, 20)),
     turns |-> {TurnRec(1, 3, 2)}]

\* As FaultyMap's lane 1 with a well-formed parking lane 11, and the
\* parking lane 15 that its road pairs with no driving lane.
OrphanMap ==
    [lanes |-> (1 :> LaneRec("Driving", 40, FALSE, 0, 0, 0)) @@
               (11 :> LaneRec("Parking", 40, FALSE, 1, 1, 21)) @@
               (15 :> LaneRec("Parking", 40, FALSE, 1, 0, 21)) @@
               (21 :> LaneRec("Sidewalk", 40, FALSE, 0, 0, 0)),
     buildings |-> (1 :> BuildingRec(TRUE, FALSE, 1, 1, 10)),
     lots |-> (1 :> LotRec(1, 1, 20)),
     turns |-> {}]

\* The networks the construction of the store is followed on
ConstructionMaps == {"ZeroMap", "FaultyMap", "OrphanMap"}

\* Two driving lanes 1 <-> 2 in a cycle; the parking lane 11 (one spot) on
\* lane 1, lot 1 (one spot) on lane 2; building 1 has no parking.
ReadsMap ==
    [lanes |-> (1 :> LaneRec("Driving", 32, FALSE, 0, 0, 0)) @@
               (2 :> LaneRec("Driving", 30, FALSE, 0, 0, 0)) @@
               (11 :> LaneRec("Parking", 32, FALSE, 1, 1, 21)) @@
               (21 :> LaneRec("Sidewalk", 32, FALSE, 0, 0, 0)),
     buildings |-> (1 :> BuildingRec(FALSE, FALSE, 0, 2, 10)),
     lots |-> (1 :> LotRec(1, 2, 20)),
     turns |-> {TurnRec(1, 2, 5), TurnRec(2, 1, 5)}]

\* The networks the read-only calls are followed on
ReadsMaps == {"ReadsMap"}

\* Four driving lanes.  From lane 1 two turns of the same length lead to
\* the lanes 2 and 3, which are equally long and both lead on to lane 4;
\* lane 4 leads back to lane 1.  On lane 2 the parking lane 12 (two spots),
\* the public garage 1 and lot 2 (two spots) are reached at the same
\* distance by the short vehicle; lane 3 has lot 3, lane 4 has lot 4.
TieMap ==
    [lanes |-> (1 :> LaneRec("Driving", 10, FALSE, 0, 0, 0)) @@
               (2 :> LaneRec("Driving", 30, FALSE, 0, 0, 0)) @@
               (3 :> LaneRec("Driving", 30, FALSE, 0, 0, 0)) @@
               (4 :> LaneRec("Driving", 10, FALSE, 0, 0, 0)) @@
               (12 :> LaneRec("Parking", 30, FALSE, 2, 2, 22)) @@
               (22 :> LaneRec("Sidewalk", 30, FALSE, 0, 0, 0)),
     buildings |-> (1 :> BuildingRec(TRUE, TRUE, 1, 2, 14)),
     lots |-> (2 :> LotRec(2, 2, 14)) @@
              (3 :> LotRec(1, 3, 5)) @@
              (4 :> LotRec(1, 4, 3)),
     turns |-> {TurnRec(1, 2, 1), TurnRec(1, 3, 1), TurnRec(2, 4, 1),
                TurnRec(3, 4, 1), TurnRec(4, 1, 1)}]

\* The networks with ties the search is run on
TieMaps == {"TieMap"}

\* The networks the search is run on
SearchMaps == {"SearchMap"}

\* The networks the event log is followed on
EventsMaps == {"EventsMap"}

\* The networks with cycles the termination of the search is checked on
LoopMaps == {"LoopMap"}

MapOf(n) ==
    CASE n = "SearchMap" -> SearchMap
      [] n = "LoopMap" -> LoopMap
      [] n = "EventsMap" -> EventsMap
      [] n = "LaneMap" -> LaneMap
      [] n = "GarageMap" -> GarageMap
      [] n = "LotMap" -> LotMap
      [] n = "ZeroMap" -> ZeroMap
      [] n = "FaultyMap" -> FaultyMap
      [] n = "OrphanMap" -> OrphanMap
      [] n = "ReadsMap" -> ReadsMap
      [] n = "TieMap" -> TieMap
      [] OTHER -> StoreMap

\* Map::get_l(l).length()
lane_length(m, l) == m.lanes[l].length

RECURSIVE TurnsByDst(_)
\* A set of turns as a sequence, by destination lane id.
TurnsByDst(T) ==
    IF T = {} THEN <<>>
    ELSE LET t == CHOOSE x \in T : \A y \in T :
                      x.dst < y.dst \/ (x.dst = y.dst /\ x.length <= y.length)
         IN <<t>> \o TurnsByDst(T \ {t})

\* Map::get_turns_for(l, PathConstraints::Car): the turns leaving l
get_turns_for(m, l) == TurnsByDst({t \in m.turns : t.src = l})

\* Position::equiv_pos: the same point in the frame of another lane of the
\* road (same direction): the distance, clamped to the other lane's length.
equiv_pos(m, pos, l, our_len) == Position(l, Min2(pos.dist_along, lane_length(m, l)))

----------------------------------------------------------------------------
(* ParkingLane *)

\* Mutant of ParkingLane_new: a parking lane without sidewalk is kept.
ParkingLane_new_without_sidewalk(m, l) ==
    LET lane == m.lanes[l] IN
    IF lane.lane_type # "Parking" THEN [tag |-> "None", warn |-> FALSE]
    ELSE IF lane.driving = 0 THEN [tag |-> "Panic", warn |-> FALSE]
    ELSE IF m.lanes[lane.driving].parking_blackhole THEN [tag |-> "None", warn |-> FALSE]
    ELSE [tag |-> "Some", warn |-> FALSE,
          lane |-> [parking_lane |-> l,
                    driving_lane |-> lane.driving,
                    sidewalk |-> lane.sidewalk,
                    spot_dist_along |->
                        [i \in 1..lane.number_parking_spots |->
                            PARKING_SPOT_LENGTH * (2 + (i - 1))]]]

\* ParkingLane::new: "None", "Panic" or "Some" with the lane's helper.
ParkingLane_new(m, l) ==
    LET lane == m.lanes[l] IN
    IF lane.lane_type # "Parking" THEN [tag |-> "None", warn |-> FALSE]
    ELSE IF lane.driving = 0 THEN [tag |-> "Panic", warn |-> FALSE]
    ELSE IF m.lanes[lane.driving].parking_blackhole THEN [tag |-> "None", warn |-> FALSE]
    ELSE IF lane.sidewalk = 0 THEN [tag |-> "None", warn |-> TRUE]
    ELSE [tag |-> "Some", warn |-> FALSE,
          lane |-> [parking_lane |-> l,
                    driving_lane |-> lane.driving,
                    sidewalk |-> lane.sidewalk,
                    spot_dist_along |->
                        [i \in 1..lane.number_parking_spots |->
                            PARKING_SPOT_LENGTH * (2 + (i - 1))]]]

\* ParkingLane::dist_along_for_car (spot_idx is 0-based)
dist_along_for_car(pl, spot_idx, vehicle) ==
    pl.spot_dist_along[spot_idx + 1] - ((PARKING_SPOT_LENGTH - vehicle.length) \div 2)

\* ParkingLane::spots: the lane's spots in index order
spots(pl) == [i \in 1..Len(pl.spot_dist_along) |-> Onstreet(pl.parking_lane, i - 1)]

----------------------------------------------------------------------------
(* ParkingSimState::new *)

\* The parking lanes new() keeps
new_kept_lanes(m) == {l \in DOMAIN m.lanes : ParkingLane_new(m, l).tag = "Some"}

\* new() panics when some parking lane has no driving lane
new_panics(m) == \E l \in DOMAIN m.lanes : ParkingLane_new(m, l).tag = "Panic"

\* The lanes new() makes the timer warn about (when it does not panic)
new_warnings(m) == {l \in DOMAIN m.lanes : ParkingLane_new(m, l).warn}

new_onstreet_lanes(m) == [l \in new_kept_lanes(m) |-> ParkingLane_new(m, l).lane]

new_driving_to_parking_lanes(m) ==
    LET kept == new_kept_lanes(m) IN
    [d \in {m.lanes[l].driving : l \in kept} |-> {l \in kept : m.lanes[l].driving = d}]

\* The buildings new() indexes
new_kept_buildings(m) ==
    {b \in DOMAIN m.buildings :
        /\ m.buildings[b].has_parking
        /\ ~m.lanes[m.buildings[b].driving_pos.lane].parking_blackhole}

new_num_spots_per_offstreet(m) ==
    [b \in new_kept_buildings(m) |-> m.buildings[b].num_spots]

new_driving_to_offstreet(m) ==
    LET kept == new_kept_buildings(m) IN
    [d \in {m.buildings[b].driving_pos.lane : b \in kept} |->
        {b \in kept : m.buildings[b].driving_pos.lane = d}]

\* Mutant of new_kept_lots: the blackhole test is left out.
new_kept_lots_with_blackholes(m) ==
    {pl \in DOMAIN m.lots : m.lots[pl].num_spots # 0}

\* The parking lots new() indexes
new_kept_lots(m) ==
    {pl \in DOMAIN m.lots :
        /\ m.lots[pl].num_spots # 0
        /\ ~m.lanes[m.lots[pl].driving_pos.lane].parking_blackhole}

new_num_spots_per_lot(m) == [pl \in new_kept_lots(m) |-> m.lots[pl].num_spots]

new_driving_to_lots(m) ==
    LET kept == new_kept_lots(m) IN
    [d \in {m.lots[pl].driving_pos.lane : pl \in kept} |->
        {pl \in kept : m.lots[pl].driving_pos.lane = d}]

\* The state new(map) returns; a panic leaves no store behind.
Init ==
    /\ map \in Maps
    /\ parked_cars = EmptyMap
    /\ occupants = EmptyMap
    /\ reserved_spots = {}
    /\ events = <<>>
    /\ failed = new_panics(MapOf(map))
    /\ last = [op |-> "new", car |-> 0, spot |-> None]
    /\ returned = <<>>
    /\ drivers = [c \in CarIDs |-> [pc |-> "idle", spot |-> None]]
    /\ search = [pc |-> "idle"]
    /\ IF new_panics(MapOf(map))
       THEN /\ onstreet_lanes = EmptyMap
            /\ driving_to_parking_lanes = EmptyMap
            /\ num_spots_per_offstreet = EmptyMap
            /\ driving_to_offstreet = EmptyMap
            /\ num_spots_per_lot = EmptyMap
            /\ driving_to_lots = EmptyMap
       ELSE /\ onstreet_lanes = new_onstreet_lanes(MapOf(map))
            /\ driving_to_parking_lanes = new_driving_to_parking_lanes(MapOf(map))
            /\ num_spots_per_offstreet = new_num_spots_per_offstreet(MapOf(map))
            /\ driving_to_offstreet = new_driving_to_offstreet(MapOf(map))
            /\ num_spots_per_lot = new_num_spots_per_lot(MapOf(map))
            /\ driving_to_lots = new_driving_to_lots(MapOf(map))

----------------------------------------------------------------------------
(* Queries *)

\* Mutant of is_free: a reservation does not make a spot non-free.
is_free_ignoring_reserved(spot) == spot \notin DOMAIN occupants

\* ParkingSimState::is_free
is_free(spot) == spot \notin DOMAIN occupants /\ spot \notin reserved_spots

\* The sanity check at the end of reserve_spot: the entity is indexed
\* (indexing a missing key panics) and the index is below its capacity.
spot_exists(spot) ==
    CASE spot.kind = "Onstreet" ->
            /\ spot.id \in DOMAIN onstreet_lanes
            /\ spot.idx < Len(onstreet_lanes[spot.id].spot_dist_along)
      [] spot.kind = "Offstreet" ->
            /\ spot.id \in DOMAIN num_spots_per_offstreet
            /\ spot.idx < num_spots_per_offstreet[spot.id]
      [] spot.kind = "Lot" ->
            /\ spot.id \in DOMAIN num_spots_per_lot
            /\ spot.idx < num_spots_per_lot[spot.id]

\* Mutant of get_free_onstreet_spots: the is_free test is left out.
get_free_onstreet_spots_unfiltered(l) ==
    IF l \in DOMAIN onstreet_lanes THEN spots(onstreet_lanes[l]) ELSE <<>>

\* ParkingSimState::get_free_onstreet_spots
get_free_onstreet_spots(l) ==
    IF l \in DOMAIN onstreet_lanes
    THEN SelectSeq(spots(onstreet_lanes[l]), is_free)
    ELSE <<>>

\* ParkingSimState::get_free_offstreet_spots
get_free_offstreet_spots(b) ==
    LET n == IF b \in DOMAIN num_spots_per_offstreet THEN num_spots_per_offstreet[b] ELSE 0
    IN SelectSeq([i \in 1..n |-> Offstreet(b, i - 1)], is_free)

\* ParkingSimState::get_free_lot_spots
get_free_lot_spots(pl) ==
    LET n == IF pl \in DOMAIN num_spots_per_lot THEN num_spots_per_lot[pl] ELSE 0
    IN SelectSeq([i \in 1..n |-> Lot(pl, i - 1)], is_free)

\* Mutant of all_spots: the loop over the parking lots is left out.
all_spots_without_lots ==
    LET ls == SortedSeq(DOMAIN onstreet_lanes)
        bs == SortedSeq(DOMAIN num_spots_per_offstreet)
    IN Concat([i \in 1..Len(ls) |-> spots(onstreet_lanes[ls[i]])])
       \o Concat([i \in 1..Len(bs) |->
                    [j \in 1..num_spots_per_offstreet[bs[i]] |-> Offstreet(bs[i], j - 1)]])

\* get_all_parking_spots, lines 368-381: every spot of every indexed lane,
\* building and lot, each table in key order
all_spots ==
    LET ls == SortedSeq(DOMAIN onstreet_lanes)
        bs == SortedSeq(DOMAIN num_spots_per_offstreet)
        pls == SortedSeq(DOMAIN num_spots_per_lot)
    IN Concat([i \in 1..Len(ls) |-> spots(onstreet_lanes[ls[i]])])
       \o Concat([i \in 1..Len(bs) |->
                    [j \in 1..num_spots_per_offstreet[bs[i]] |-> Offstreet(bs[i], j - 1)]])
       \o Concat([i \in 1..Len(pls) |->
                    [j \in 1..num_spots_per_lot[pls[i]] |-> Lot(pls[i], j - 1)]])

\* The spots of a list that are not free
not_free(spot) == ~is_free(spot)

\* ParkingSimState::get_all_parking_spots: (filled, available)
get_all_parking_spots ==
    [filled |-> SelectSeq(all_spots, not_free),
     available |-> SelectSeq(all_spots, is_free)]

\* ParkingSimState::get_car_at_spot: None, or the ParkedCar of the occupant.
\* Indexing parked_cars with an absent car panics ("Panic").
get_car_at_spot(spot) ==
    IF spot \notin DOMAIN occupants THEN None
    ELSE IF occupants[spot] \in DOMAIN parked_cars THEN parked_cars[occupants[spot]]
    ELSE [panic |-> TRUE]

\* ParkingSimState::lookup_parked_car
lookup_parked_car(id) == IF id \in DOMAIN parked_cars THEN parked_cars[id] ELSE None

\* ParkingSimState::get_owner_of_car
get_owner_of_car(id) ==
    IF id \in DOMAIN parked_cars THEN parked_cars[id].vehicle.owner ELSE None

\* ParkingSimState::spot_to_driving_pos
spot_to_driving_pos(spot, vehicle) ==
    CASE spot.kind = "Onstreet" ->
            LET lane == onstreet_lanes[spot.id] IN
            equiv_pos(MapOf(map), Position(spot.id, dist_along_for_car(lane, spot.idx, vehicle)),
                      lane.driving_lane, vehicle.length)
      [] spot.kind = "Offstreet" -> MapOf(map).buildings[spot.id].driving_pos
      [] spot.kind = "Lot" -> MapOf(map).lots[spot.id].driving_pos

\* get_all_free_spots, first loop: the on-street candidates
onstreet_candidates(driving_pos, vehicle) ==
    LET ls == SortedSeq(MultiMapGet(driving_to_parking_lanes, driving_pos.lane))
        per(l) ==
            LET parking_dist ==
                    equiv_pos(MapOf(map), driving_pos, l, driving_pos.dist_along).dist_along
                lane == onstreet_lanes[l]
                ok(spot) == /\ is_free(spot)
                            /\ parking_dist < dist_along_for_car(lane, spot.idx, vehicle)
            IN SelectSeq(spots(lane), ok)
    IN Concat([i \in 1..Len(ls) |-> per(ls[i])])

\* Mutant of offstreet_candidates: private buildings are not skipped.
offstreet_candidates_unfiltered(driving_pos, target) ==
    LET bs == SortedSeq(MultiMapGet(driving_to_offstreet, driving_pos.lane))
        per(b) ==
            LET parking == MapOf(map).buildings[b] IN
            IF driving_pos.dist_along < parking.driving_pos.dist_along
            THEN SelectSeq([i \in 1..num_spots_per_offstreet[b] |-> Offstreet(b, i - 1)],
                           is_free)
            ELSE <<>>
    IN Concat([i \in 1..Len(bs) |-> per(bs[i])])

\* get_all_free_spots, second loop: the off-street candidates
offstreet_candidates(driving_pos, target) ==
    LET bs == SortedSeq(MultiMapGet(driving_to_offstreet, driving_pos.lane))
        per(b) ==
            LET parking == MapOf(map).buildings[b] IN
            IF ~parking.public_garage /\ target # b THEN <<>>
            ELSE IF driving_pos.dist_along < parking.driving_pos.dist_along
            THEN SelectSeq([i \in 1..num_spots_per_offstreet[b] |-> Offstreet(b, i - 1)],
                           is_free)
            ELSE <<>>
    IN Concat([i \in 1..Len(bs) |-> per(bs[i])])

\* Mutant of lot_spot_ok: the is_free test is left out.
lot_spot_unfiltered(spot) == TRUE

\* get_all_free_spots, line 315: the test of a lot spot
lot_spot_ok(spot) == is_free(spot)

\* Mutant of lot_candidates: a lot at the vehicle's own distance counts as ahead.
lot_candidates_at_or_ahead(driving_pos) ==
    LET pls == SortedSeq(MultiMapGet(driving_to_lots, driving_pos.lane))
        per(pl) ==
            IF driving_pos.dist_along <= MapOf(map).lots[pl].driving_pos.dist_along
            THEN SelectSeq([i \in 1..num_spots_per_lot[pl] |-> Lot(pl, i - 1)], lot_spot_ok)
            ELSE <<>>
    IN Concat([i \in 1..Len(pls) |-> per(pls[i])])

\* get_all_free_spots, third loop: the lot candidates
lot_candidates(driving_pos) ==
    LET pls == SortedSeq(MultiMapGet(driving_to_lots, driving_pos.lane))
        per(pl) ==
            IF driving_pos.dist_along < MapOf(map).lots[pl].driving_pos.dist_along
            THEN SelectSeq([i \in 1..num_spots_per_lot[pl] |-> Lot(pl, i - 1)], lot_spot_ok)
            ELSE <<>>
    IN Concat([i \in 1..Len(pls) |-> per(pls[i])])

\* ParkingSimState::get_all_free_spots: a sequence of (spot, position)
get_all_free_spots(driving_pos, vehicle, target) ==
    LET candidates == onstreet_candidates(driving_pos, vehicle)
                      \o offstreet_candidates(driving_pos, target)
                      \o lot_candidates(driving_pos)
    IN [i \in 1..Len(candidates) |->
           [spot |-> candidates[i],
            pos |-> spot_to_driving_pos(candidates[i], vehicle)]]

----------------------------------------------------------------------------
(* ParkingSimState::path_to_free_parking_spot *)

PathStepLane(l) == [step |-> "Lane", lane |-> l]
PathStepTurn(t) == [step |-> "Turn", src |-> t.src, dst |-> t.dst]

\* Mutant of heap_less: the entries are ordered by their distance alone.
heap_less_by_distance(a, b) == a[1] < b[1]

\* Ord of the heap's (Distance, LaneID) entries
heap_less(a, b) == a[1] < b[1] \/ (a[1] = b[1] /\ a[2] < b[2])

\* Mutant of heap_max_index: the entries are compared by distance alone,
\* the earliest pushed of the greatest is popped.
heap_max_index_by_distance(queue) ==
    CHOOSE i \in 1..Len(queue) :
        /\ \A j \in 1..Len(queue) : queue[i][1] >= queue[j][1]
        /\ \A j \in 1..(i - 1) : queue[j][1] < queue[i][1]

\* BinaryHeap::pop: the position of a greatest entry
heap_max_index(queue) ==
    CHOOSE i \in 1..Len(queue) : \A j \in 1..Len(queue) : ~heap_less(queue[i], queue[j])

\* Mutant of min_by_key: of several least elements the last is taken.
min_by_key_last(found) ==
    found[CHOOSE i \in 1..Len(found) :
            /\ \A j \in 1..Len(found) : found[i].pos.dist_along <= found[j].pos.dist_along
            /\ \A j \in (i + 1)..Len(found) :
                  found[j].pos.dist_along > found[i].pos.dist_along]

\* Iterator::min_by_key(|(_, pos)| pos.dist_along()): the first least element
min_by_key(found) ==
    found[CHOOSE i \in 1..Len(found) :
            /\ \A j \in 1..Len(found) : found[i].pos.dist_along <= found[j].pos.dist_along
            /\ \A j \in 1..(i - 1) : found[j].pos.dist_along > found[i].pos.dist_along]

\* Mutant of Reverse: the steps are left in the order of the walk.
Unreversed(s) == s

Reverse(s) == [i \in 1..Len(s) |-> s[Len(s) + 1 - i]]

RECURSIVE rebuild_path(_, _, _, _)
\* The loop that walks the backreferences from the hit back to start
rebuild_path(steps, current, start, backrefs) ==
    IF current = start
    THEN Reverse(SubSeq(steps, 1, Len(steps) - 1))
    ELSE LET turn == backrefs[current] IN
         rebuild_path(steps \o <<PathStepTurn(turn), PathStepLane(turn.src)>>,
                      turn.src, start, backrefs)

\* Mutant of expand_turns: the loop stops after the first turn.
expand_first_turn(turns, current, dist_so_far, backrefs, queue) ==
    IF turns = <<>> THEN <<backrefs, queue>>
    ELSE LET turn == Head(turns) IN
         IF turn.dst \notin DOMAIN backrefs
         THEN <<MapPut(backrefs, turn.dst, turn),
                Append(queue, <<dist_so_far - (turn.length + lane_length(MapOf(map), current)),
                                turn.dst>>)>>
         ELSE <<backrefs, queue>>

RECURSIVE expand_every_turn(_, _, _, _, _)
\* Mutant of expand_turns: a lane is pushed whether or not it was reached before.
expand_every_turn(turns, current, dist_so_far, backrefs, queue) ==
    IF turns = <<>> THEN <<backrefs, queue>>
    ELSE LET turn == Head(turns) IN
         expand_every_turn(Tail(turns), current, dist_so_far,
                           MapPut(backrefs, turn.dst, turn),
                           Append(queue, <<dist_so_far - (turn.length
                                                          + lane_length(MapOf(map), current)),
                                           turn.dst>>))

RECURSIVE expand_turns_not_negated(_, _, _, _, _)
\* Mutant of expand_turns: the step's distance is added, not subtracted.
expand_turns_not_negated(turns, current, dist_so_far, backrefs, queue) ==
    IF turns = <<>> THEN <<backrefs, queue>>
    ELSE LET turn == Head(turns) IN
         IF turn.dst \notin DOMAIN backrefs
         THEN LET dist_this_step == turn.length + lane_length(MapOf(map), current) IN
              expand_turns_not_negated(Tail(turns), current, dist_so_far,
                                       MapPut(backrefs, turn.dst, turn),
                                       Append(queue, <<dist_so_far + dist_this_step,
                                                       turn.dst>>))
         ELSE expand_turns_not_negated(Tail(turns), current, dist_so_far, backrefs, queue)

RECURSIVE expand_turns_overwriting(_, _, _, _, _)
\* Mutant of expand_turns: the backreference is written for every turn, a
\* lane reached before keeps its queue entry and loses its backreference.
expand_turns_overwriting(turns, current, dist_so_far, backrefs, queue) ==
    IF turns = <<>> THEN <<backrefs, queue>>
    ELSE LET turn == Head(turns) IN
         IF turn.dst \notin DOMAIN backrefs
         THEN LET dist_this_step == turn.length + lane_length(MapOf(map), current) IN
              expand_turns_overwriting(Tail(turns), current, dist_so_far,
                                       MapPut(backrefs, turn.dst, turn),
                                       Append(queue, <<dist_so_far - dist_this_step,
                                                       turn.dst>>))
         ELSE expand_turns_overwriting(Tail(turns), current, dist_so_far,
                                       MapPut(backrefs, turn.dst, turn), queue)

RECURSIVE expand_turns(_, _, _, _, _)
\* The loop over the turns leaving current: <<backrefs, queue>> after it
expand_turns(turns, current, dist_so_far, backrefs, queue) ==
    IF turns = <<>> THEN <<backrefs, queue>>
    ELSE LET turn == Head(turns) IN
         IF turn.dst \notin DOMAIN backrefs
         THEN LET dist_this_step == turn.length + lane_length(MapOf(map), current) IN
              expand_turns(Tail(turns), current, dist_so_far,
                           MapPut(backrefs, turn.dst, turn),
                           Append(queue, <<dist_so_far - dist_this_step, turn.dst>>))
         ELSE expand_turns(Tail(turns), current, dist_so_far, backrefs, queue)

\* Mutant of not_start: the start lane is looked at like any other lane.
any_lane(current, start) == TRUE

\* Line 417: if current != start
not_start(current, start) == current # start

RECURSIVE search_loop(_, _, _, _, _)
\* The while loop over the queue
search_loop(queue, backrefs, start, vehicle, target) ==
    IF queue = <<>> THEN None
    ELSE LET i == heap_max_index(queue)
             dist_so_far == queue[i][1]
             current == queue[i][2]
             rest == SubSeq(queue, 1, i - 1) \o SubSeq(queue, i + 1, Len(queue))
             found == IF not_start(current, start)
                      THEN get_all_free_spots(Position(current, 0), vehicle, target)
                      ELSE <<>>
         IN IF found # <<>>
            THEN [steps |-> rebuild_path(<<PathStepLane(current)>>, current, start, backrefs),
                  spot |-> min_by_key(found).spot,
                  pos |-> min_by_key(found).pos]
            ELSE LET next == expand_turns(get_turns_for(MapOf(map), current), current,
                                          dist_so_far, backrefs, rest)
                 IN search_loop(next[2], next[1], start, vehicle, target)

\* ParkingSimState::path_to_free_parking_spot: None, or (steps, spot, pos)
path_to_free_parking_spot(start, vehicle, target) ==
    search_loop(<<<<0, start>>>>, EmptyMap, start, vehicle, target)

\* Every network of the model, by name
AllMaps == Maps \cup SearchMaps \cup LoopMaps \cup EventsMaps \cup QueryMaps
           \cup ConstructionMaps \cup ReadsMaps \cup TieMaps

\* The lanes a vehicle searches from, the vehicles and the targets asked
\* for, tabulated per network
DrivingLanesOf ==
    [n \in AllMaps |->
        {l \in DOMAIN MapOf(n).lanes : MapOf(n).lanes[l].lane_type = "Driving"}]
DrivingLanes == DrivingLanesOf[map]
Vehicles == {Vehicle(c) : c \in CarIDs}
BuildingIDsOf == [n \in AllMaps |-> DOMAIN MapOf(n).buildings]
BuildingIDs == BuildingIDsOf[map]

\* The spot values callers pass: for every parking lane, building and lot
\* of the network (indexed by the store or not), every index from 0 up to
\* and including its number of spots (the first index out of range).
SpotValuesOf ==
    [n \in AllMaps |->
    LET m == MapOf(n) IN
    UNION {{Onstreet(l, i) : i \in 0..m.lanes[l].number_parking_spots} :
              l \in {x \in DOMAIN m.lanes : m.lanes[x].lane_type = "Parking"}}
    \cup UNION {{Offstreet(b, i) : i \in 0..m.buildings[b].num_spots} :
              b \in DOMAIN m.buildings}
    \cup UNION {{Lot(pl, i) : i \in 0..m.lots[pl].num_spots} : pl \in DOMAIN m.lots}]
SpotValues == SpotValuesOf[map]

\* The ParkedCar values callers pass
ParkedCarValuesOf ==
    [n \in AllMaps |-> {ParkedCar(c, s) : c \in CarIDs, s \in SpotValuesOf[n]}]
ParkedCarValues == ParkedCarValuesOf[map]

----------------------------------------------------------------------------
(* The reservation / commit protocol *)

\* Mutant of reserve_assert: the assertion is left out.
reserve_assert_unchecked(spot) == TRUE

\* reserve_spot, line 136: assert!(self.is_free(spot))
reserve_assert(spot) == is_free(spot)

\* Mutant of reserve_sanity: the sanity check is left out.
reserve_sanity_unchecked(spot) == TRUE

\* reserve_spot, lines 139-150: the sanity check passes
reserve_sanity(spot) == spot_exists(spot)

\* Mutant of index_onstreet_lanes: looking up a lane that has no entry
\* inserts an empty one.
index_onstreet_lanes_inserting(spot) ==
    IF spot.kind = "Onstreet" /\ spot.id \notin DOMAIN onstreet_lanes
    THEN MapPut(onstreet_lanes, spot.id,
                [parking_lane |-> spot.id, driving_lane |-> 0, sidewalk |-> 0,
                 spot_dist_along |-> <<>>])
    ELSE onstreet_lanes

\* reserve_spot, line 142: onstreet_lanes after self.onstreet_lanes[&l], a
\* lookup that only reads
index_onstreet_lanes(spot) == onstreet_lanes

\* ParkingSimState::reserve_spot
reserve_spot(spot) ==
    /\ ~failed
    /\ last' = [op |-> "reserve_spot", car |-> 0, spot |-> spot]
    /\ IF ~reserve_assert(spot)
       THEN /\ failed' = TRUE
            /\ UNCHANGED <<reserved_spots, onstreet_lanes>>
       ELSE /\ reserved_spots' = reserved_spots \cup {spot}
            /\ onstreet_lanes' = index_onstreet_lanes(spot)
            /\ failed' = ~reserve_sanity(spot)
    /\ UNCHANGED <<map, parked_cars, occupants, events, driving_to_parking_lanes,
                   num_spots_per_offstreet, driving_to_offstreet, num_spots_per_lot,
                   driving_to_lots>>

\* Mutant of remove_occupant_found: the expect() is left out.
remove_occupant_unchecked(p) == TRUE

\* remove_parked_car, lines 157-159: occupants.remove(&p.spot) found an entry
remove_occupant_found(p) == p.spot \in DOMAIN occupants

\* Mutant of remove_occupant: the entry is not removed.
remove_occupant_forgotten(p) == occupants

\* Mutant of remove_occupant: every entry of the vehicle is removed too.
remove_occupant_by_vehicle(p) ==
    LET keep == {s \in DOMAIN occupants : s # p.spot /\ occupants[s] # p.vehicle.id}
    IN [s \in keep |-> occupants[s]]

\* remove_parked_car, lines 157-158: occupants after occupants.remove(&p.spot)
remove_occupant(p) == MapRemove(occupants, p.spot)

\* ParkingSimState::remove_parked_car
remove_parked_car(p) ==
    /\ ~failed
    /\ (p.vehicle.id \in DOMAIN parked_cars /\ remove_occupant_found(p))
          => Len(events) < MaxEvents
    /\ last' = [op |-> "remove_parked_car", car |-> p.vehicle.id, spot |-> p.spot]
    /\ IF p.vehicle.id \notin DOMAIN parked_cars
       THEN /\ failed' = TRUE
            /\ UNCHANGED <<parked_cars, occupants, events>>
       ELSE /\ parked_cars' = MapRemove(parked_cars, p.vehicle.id)
            /\ IF ~remove_occupant_found(p)
               THEN /\ failed' = TRUE
                    /\ UNCHANGED <<occupants, events>>
               ELSE /\ occupants' = remove_occupant(p)
                    /\ events' = Append(events, CarLeftParkingSpot(p.vehicle.id, p.spot))
                    /\ failed' = FALSE
    /\ UNCHANGED <<map, reserved_spots, indexVars>>

\* Mutant of add_reservation_found: the assertion is left out.
add_reservation_unchecked(p) == TRUE

\* Mutant of add_reservation_found: a free spot passes as well.
add_reservation_or_free(p) == p.spot \in reserved_spots \/ is_free(p.spot)

\* add_parked_car, line 168: reserved_spots.remove(&p.spot) found the spot
add_reservation_found(p) == p.spot \in reserved_spots

\* Mutant of add_reservation_taken: the occupant and the vehicle are looked
\* at first, and the reservation is consumed only if the call will succeed.
add_reservation_taken_if_accepted(p) ==
    IF p.spot \in DOMAIN occupants \/ p.vehicle.id \in DOMAIN parked_cars
    THEN reserved_spots
    ELSE reserved_spots \ {p.spot}

\* Mutant of add_reservation_taken: every reservation is dropped.
add_reservation_cleared(p) == {}

\* Mutant of add_reservation_taken: the reservation is tested, not removed.
add_reservation_kept(p) == reserved_spots

\* add_parked_car, line 168: reserved_spots after reserved_spots.remove(&p.spot)
add_reservation_taken(p) == reserved_spots \ {p.spot}

\* Mutant of add_parked_cars_insert: the insert is left out.
add_parked_cars_forgotten(p) == parked_cars

\* add_parked_car, line 174: parked_cars after the insert
add_parked_cars_insert(p) == MapPut(parked_cars, p.vehicle.id, p)

\* ParkingSimState::add_parked_car
add_parked_car(p) ==
    /\ ~failed
    /\ Len(events) < MaxEvents
    /\ last' = [op |-> "add_parked_car", car |-> p.vehicle.id, spot |-> p.spot]
    /\ events' = Append(events, CarReachedParkingSpot(p.vehicle.id, p.spot))
    /\ IF ~add_reservation_found(p)
       THEN /\ failed' = TRUE
            /\ UNCHANGED <<reserved_spots, occupants, parked_cars>>
       ELSE /\ reserved_spots' = add_reservation_taken(p)
            /\ IF p.spot \in DOMAIN occupants
               THEN /\ failed' = TRUE
                    /\ UNCHANGED <<occupants, parked_cars>>
               ELSE /\ occupants' = MapPut(occupants, p.spot, p.vehicle.id)
                    /\ IF p.vehicle.id \in DOMAIN parked_cars
                       THEN /\ failed' = TRUE
                            /\ UNCHANGED parked_cars
                       ELSE /\ parked_cars' = add_parked_cars_insert(p)
                            /\ failed' = FALSE
    /\ UNCHANGED <<map, indexVars>>

\* Mutant of collect_events_returned: the newest event is not returned.
collect_events_truncated ==
    IF events = <<>> THEN <<>> ELSE SubSeq(events, 1, Len(events) - 1)

\* collect_events, line 460: std::mem::replace returns the old log
collect_events_returned == events

\* ParkingSimState::collect_events
collect_events ==
    /\ ~failed
    /\ last' = [op |-> "collect_events", car |-> 0, spot |-> None]
    /\ events' = <<>>
    /\ UNCHANGED <<map, parked_cars, occupants, reserved_spots, failed, indexVars>>

Next ==
    \/ \E spot \in SpotValues : reserve_spot(spot) /\ UNCHANGED <<returned, drivers, search>>
    \/ \E p \in ParkedCarValues : add_parked_car(p) /\ UNCHANGED <<returned, drivers, search>>
    \/ \E p \in ParkedCarValues : remove_parked_car(p) /\ UNCHANGED <<returned, drivers, search>>
    \/ collect_events /\ UNCHANGED <<returned, drivers, search>>

Spec == Init /\ [][Next]_vars

\* The same operations, the stepping loop keeping what collect_events
\* returned until its next call
NextEvents ==
    \/ \E spot \in SpotValues :
          reserve_spot(spot) /\ returned' = <<>> /\ UNCHANGED <<drivers, search>>
    \/ \E p \in ParkedCarValues :
          add_parked_car(p) /\ returned' = <<>> /\ UNCHANGED <<drivers, search>>
    \/ \E p \in ParkedCarValues :
          remove_parked_car(p) /\ returned' = <<>> /\ UNCHANGED <<drivers, search>>
    \/ collect_events /\ returned' = collect_events_returned
          /\ UNCHANGED <<drivers, search>>

----------------------------------------------------------------------------
(* The callers of the store: the trip-planning collaborator, one trip per  *)
(* vehicle.  A vehicle asks for the free spots at its position and, if     *)
(* there is none, for the nearest free spot; it does not reserve the spot  *)
(* it is told about in advance.  When it decides to take the spot it       *)
(* reserves it if it is still free and otherwise has to search again; on   *)
(* arrival it commits occupancy, on departure it removes it.               *)

\* The spots a vehicle on lane l heading for target is told about
driver_candidates(c, l, target) ==
    LET local == get_all_free_spots(Position(l, 0), Vehicle(c), target)
        far == path_to_free_parking_spot(l, Vehicle(c), target)
    IN IF local # <<>> THEN {local[i].spot : i \in 1..Len(local)}
       ELSE IF far # None THEN {far.spot}
       ELSE {}

\* The vehicle searches and remembers the spot it was told about
driver_search(c, l, target) ==
    /\ ~failed
    /\ drivers[c].pc = "idle"
    /\ \E s \in driver_candidates(c, l, target) :
          drivers' = [drivers EXCEPT ![c] = [pc |-> "chosen", spot |-> s]]
    /\ UNCHANGED <<map, parked_cars, occupants, reserved_spots, events, failed, last,
                   indexVars, returned, search>>

\* The vehicle decides to take its spot: it reserves it if it is still free,
\* and otherwise goes back to searching
driver_reserve(c) ==
    /\ ~failed
    /\ drivers[c].pc = "chosen"
    /\ IF is_free(drivers[c].spot)
       THEN /\ reserve_spot(drivers[c].spot)
            /\ drivers' = [drivers EXCEPT ![c].pc = "reserved"]
       ELSE /\ drivers' = [drivers EXCEPT ![c].pc = "idle"]
            /\ UNCHANGED <<map, parked_cars, occupants, reserved_spots, events, failed,
                           last, indexVars>>
    /\ UNCHANGED <<returned, search>>

\* The vehicle arrives at the spot it reserved
driver_arrive(c) ==
    /\ drivers[c].pc = "reserved"
    /\ add_parked_car(ParkedCar(c, drivers[c].spot))
    /\ drivers' = [drivers EXCEPT ![c].pc = "parked"]
    /\ UNCHANGED <<returned, search>>

\* The vehicle leaves its spot
driver_leave(c) ==
    /\ drivers[c].pc = "parked"
    /\ remove_parked_car(ParkedCar(c, drivers[c].spot))
    /\ drivers' = [drivers EXCEPT ![c] = [pc |-> "idle", spot |-> None]]
    /\ UNCHANGED <<returned, search>>

NextDrivers ==
    \/ \E c \in CarIDs, l \in DrivingLanes, target \in BuildingIDs :
          driver_search(c, l, target)
    \/ \E c \in CarIDs : driver_reserve(c)
    \/ \E c \in CarIDs : driver_arrive(c)
    \/ \E c \in CarIDs : driver_leave(c)
    \/ collect_events /\ UNCHANGED <<returned, drivers, search>>

\* The store driven by its callers
SpecDrivers == Init /\ [][NextDrivers]_vars

----------------------------------------------------------------------------
(* path_to_free_parking_spot, step by step.  The call borrows the store,   *)
(* so no other operation runs between its steps.  search.queue is the      *)
(* BinaryHeap, search.backrefs the HashMap<LaneID, TurnID>.                 *)

\* Lines 406-411: the call starts with (0, start) in the queue
search_begin(start, c, target) ==
    /\ ~failed
    /\ search.pc = "idle"
    /\ search' = [pc |-> "loop", start |-> start, vehicle |-> c, target |-> target,
                  queue |-> <<<<0, start>>>>, backrefs |-> EmptyMap]

\* Lines 413-454: the call after one round of the while loop; line 456
\* when the queue is empty
search_after_pop ==
    IF search.queue = <<>>
    THEN [pc |-> "done", start |-> search.start, vehicle |-> search.vehicle,
          target |-> search.target, result |-> None]
    ELSE LET i == heap_max_index(search.queue)
             dist_so_far == search.queue[i][1]
             current == search.queue[i][2]
             rest == SubSeq(search.queue, 1, i - 1)
                     \o SubSeq(search.queue, i + 1, Len(search.queue))
             found == IF not_start(current, search.start)
                      THEN get_all_free_spots(Position(current, 0),
                                              Vehicle(search.vehicle), search.target)
                      ELSE <<>>
         IN IF found # <<>>
            THEN [pc |-> "rebuild", start |-> search.start,
                  vehicle |-> search.vehicle, target |-> search.target,
                  backrefs |-> search.backrefs,
                  steps |-> <<PathStepLane(current)>>, current |-> current,
                  spot |-> min_by_key(found).spot,
                  pos |-> min_by_key(found).pos]
            ELSE LET next == expand_turns(get_turns_for(MapOf(map), current), current,
                                          dist_so_far, search.backrefs, rest)
                 IN [search EXCEPT !.queue = next[2], !.backrefs = next[1]]

search_pop ==
    /\ search.pc = "loop"
    /\ search' = search_after_pop

\* Lines 430-443: the call after one round of the loop that walks the
\* backreferences
search_after_walk ==
    IF search.current = search.start
    THEN [pc |-> "done", start |-> search.start, vehicle |-> search.vehicle,
          target |-> search.target,
          result |-> [steps |-> Reverse(SubSeq(search.steps, 1, Len(search.steps) - 1)),
                      spot |-> search.spot, pos |-> search.pos]]
    ELSE LET turn == search.backrefs[search.current] IN
         [search EXCEPT
             !.steps = search.steps \o <<PathStepTurn(turn), PathStepLane(turn.src)>>,
             !.current = turn.src]

search_walk ==
    /\ search.pc = "rebuild"
    /\ search' = search_after_walk

\* The caller takes the result
search_return ==
    /\ search.pc = "done"
    /\ search' = [pc |-> "idle"]

\* The state new(map) returns for a network of ms (none of them panics)
InitOn(ms) ==
    /\ map \in ms
    /\ parked_cars = EmptyMap
    /\ occupants = EmptyMap
    /\ reserved_spots = {}
    /\ events = <<>>
    /\ failed = new_panics(MapOf(map))
    /\ last = [op |-> "new", car |-> 0, spot |-> None]
    /\ returned = <<>>
    /\ drivers = [c \in CarIDs |-> [pc |-> "idle", spot |-> None]]
    /\ search = [pc |-> "idle"]
    /\ onstreet_lanes = new_onstreet_lanes(MapOf(map))
    /\ driving_to_parking_lanes = new_driving_to_parking_lanes(MapOf(map))
    /\ num_spots_per_offstreet = new_num_spots_per_offstreet(MapOf(map))
    /\ driving_to_offstreet = new_driving_to_offstreet(MapOf(map))
    /\ num_spots_per_lot = new_num_spots_per_lot(MapOf(map))
    /\ driving_to_lots = new_driving_to_lots(MapOf(map))

InitSearch == InitOn(SearchMaps)

\* The store with its event log followed by the stepping loop
SpecEvents == InitOn(EventsMaps) /\ [][NextEvents]_vars

\* The state new(map) returns for a network of ms; a panic leaves no
\* store behind.
InitNew(ms) ==
    /\ map \in ms
    /\ parked_cars = EmptyMap
    /\ occupants = EmptyMap
    /\ reserved_spots = {}
    /\ events = <<>>
    /\ failed = new_panics(MapOf(map))
    /\ last = [op |-> "new", car |-> 0, spot |-> None]
    /\ returned = <<>>
    /\ drivers = [c \in CarIDs |-> [pc |-> "idle", spot |-> None]]
    /\ search = [pc |-> "idle"]
    /\ IF new_panics(MapOf(map))
       THEN /\ onstreet_lanes = EmptyMap
            /\ driving_to_parking_lanes = EmptyMap
            /\ num_spots_per_offstreet = EmptyMap
            /\ driving_to_offstreet = EmptyMap
            /\ num_spots_per_lot = EmptyMap
            /\ driving_to_lots = EmptyMap
       ELSE /\ onstreet_lanes = new_onstreet_lanes(MapOf(map))
            /\ driving_to_parking_lanes = new_driving_to_parking_lanes(MapOf(map))
            /\ num_spots_per_offstreet = new_num_spots_per_offstreet(MapOf(map))
            /\ driving_to_offstreet = new_driving_to_offstreet(MapOf(map))
            /\ num_spots_per_lot = new_num_spots_per_lot(MapOf(map))
            /\ driving_to_lots = new_driving_to_lots(MapOf(map))

\* The store built from well-formed and from misconfigured networks
SpecConstruction == InitNew(ConstructionMaps) /\ [][Next]_vars

----------------------------------------------------------------------------
(* The read-only calls (&self), each as one step: the caller keeps the     *)
(* call and what it returned until the next call.                          *)

\* Mutant of query_reserved: a search that finds a spot reserves it.
query_reserving(name, result) ==
    IF name = "path_to_free_parking_spot" /\ result # None
    THEN reserved_spots \cup {result.spot}
    ELSE reserved_spots

\* reserved_spots after a call that takes &self
query_reserved(name, result) == reserved_spots

\* The call panics: get_car_at_spot when the occupant it finds is not parked
query_panics(name, args) ==
    /\ name = "get_car_at_spot"
    /\ args[1] \in DOMAIN occupants
    /\ occupants[args[1]] \notin DOMAIN parked_cars

\* A call through &self returning result
query(name, args, result) ==
    /\ ~failed
    /\ returned' = <<[query |-> name, args |-> args, result |-> result]>>
    /\ reserved_spots' = query_reserved(name, result)
    /\ failed' = query_panics(name, args)
    /\ UNCHANGED <<map, parked_cars, occupants, events, last, indexVars, drivers, search>>

\* What the query name returns for args in the current state
query_result(name, args) ==
    CASE name = "path_to_free_parking_spot" ->
            path_to_free_parking_spot(args[1], Vehicle(args[2]), args[3])
      [] name = "get_all_free_spots" ->
            get_all_free_spots(Position(args[1], 0), Vehicle(args[2]), args[3])
      [] name = "get_free_onstreet_spots" -> get_free_onstreet_spots(args[1])
      [] name = "get_free_offstreet_spots" -> get_free_offstreet_spots(args[1])
      [] name = "get_free_lot_spots" -> get_free_lot_spots(args[1])
      [] name = "is_free" -> [bool |-> is_free(args[1])]
      [] name = "get_car_at_spot" -> get_car_at_spot(args[1])
      [] name = "lookup_parked_car" -> lookup_parked_car(args[1])
      [] name = "get_owner_of_car" -> [owner |-> get_owner_of_car(args[1])]
      [] name = "get_all_parking_spots" -> get_all_parking_spots

\* The calls the callers make, tabulated per network: the query's name and
\* its arguments (lanes, vehicles and targets by id)
QueryCallsOf ==
    [n \in AllMaps |->
        {<<name, <<l, c, target>>>> :
            name \in {"path_to_free_parking_spot", "get_all_free_spots"},
            l \in DrivingLanesOf[n], c \in CarIDs, target \in BuildingIDsOf[n]}
        \cup {<<"get_free_onstreet_spots", <<l>>>> : l \in DOMAIN MapOf(n).lanes}
        \cup {<<"get_free_offstreet_spots", <<b>>>> : b \in DOMAIN MapOf(n).buildings}
        \cup {<<"get_free_lot_spots", <<pl>>>> : pl \in DOMAIN MapOf(n).lots}
        \cup {<<name, <<spot>>>> :
                name \in {"is_free", "get_car_at_spot"}, spot \in SpotValuesOf[n]}
        \cup {<<name, <<c>>>> : name \in {"lookup_parked_car", "get_owner_of_car"},
                                c \in CarIDs}
        \cup {<<"get_all_parking_spots", <<>>>>}]
QueryCalls == QueryCallsOf[map]

\* The mutating operations and the queries, in any order
NextReads ==
    \/ \E spot \in SpotValues :
          reserve_spot(spot) /\ returned' = <<>> /\ UNCHANGED <<drivers, search>>
    \/ \E p \in ParkedCarValues :
          add_parked_car(p) /\ returned' = <<>> /\ UNCHANGED <<drivers, search>>
    \/ \E p \in ParkedCarValues :
          remove_parked_car(p) /\ returned' = <<>> /\ UNCHANGED <<drivers, search>>
    \/ collect_events /\ returned' = <<>> /\ UNCHANGED <<drivers, search>>
    \/ \E q \in QueryCalls : query(q[1], q[2], query_result(q[1], q[2]))

\* The store with its read-only calls
SpecReads == InitOn(ReadsMaps) /\ [][NextReads]_vars

\* The store on the networks of the per-entity queries
SpecQueries == InitOn(QueryMaps) /\ [][Next]_vars

storeVars == <<map, parked_cars, occupants, reserved_spots, events, failed, last,
               indexVars, returned, drivers>>

\* Searches between reservations
NextSearch ==
    \/ \E spot \in SpotValues :
          search.pc = "idle" /\ reserve_spot(spot) /\ UNCHANGED <<returned, drivers, search>>
    \/ \E start \in DrivingLanes, c \in CarIDs, target \in BuildingIDs :
          search_begin(start, c, target) /\ UNCHANGED storeVars
    \/ search_pop /\ UNCHANGED storeVars
    \/ search_walk /\ UNCHANGED storeVars
    \/ search_return /\ UNCHANGED storeVars

SpecSearch == InitSearch /\ [][NextSearch]_vars

\* The searches on the networks with ties
SpecTies == InitOn(TieMaps) /\ [][NextSearch]_vars

\* A call that has started runs on: nothing else can run before it returns
SearchStep == (search_pop \/ search_walk) /\ UNCHANGED storeVars

\* The searches on the networks with cycles, each call running to its end
SpecSearchFair == InitOn(LoopMaps) /\ [][NextSearch]_vars /\ WF_vars(SearchStep)

----------------------------------------------------------------------------
(* Properties *)

\* The step is the call op(c, s): every call records itself in last.
CalledWith(op, c, s) == ~failed /\ last' = [op |-> op, car |-> c, spot |-> s]

\* s names an indexed entity and an index below that entity's capacity.
InRange(s) ==
    CASE s.kind = "Onstreet" ->
            /\ s.id \in DOMAIN onstreet_lanes
            /\ s.idx < Len(onstreet_lanes[s.id].spot_dist_along)
      [] s.kind = "Offstreet" ->
            /\ s.id \in DOMAIN num_spots_per_offstreet
            /\ s.idx < num_spots_per_offstreet[s.id]
      [] s.kind = "Lot" ->
            /\ s.id \in DOMAIN num_spots_per_lot
            /\ s.idx < num_spots_per_lot[s.id]

OccupiedSpots == DOMAIN occupants

\* C1: after any sequence of store operations none of which failed,
\* parked_cars and occupants are mutual inverses: every parked car's spot
\* is occupied by that car, and every occupant is parked at that spot.
\* remove_parked_car takes any ParkedCar value, also one whose spot is not
\* the spot its vehicle is parked at.
C1_MutualInverses ==
    ~failed =>
        /\ \A v \in DOMAIN parked_cars :
              /\ parked_cars[v].spot \in DOMAIN occupants
              /\ occupants[parked_cars[v].spot] = v
        /\ \A s \in DOMAIN occupants :
              /\ occupants[s] \in DOMAIN parked_cars
              /\ parked_cars[occupants[s]].spot = s

\* C2: in every reachable state no spot is both occupied and reserved, and
\* is_free(s) is true exactly of the spots that are neither.
C2_OccupiedReservedDisjoint ==
    /\ OccupiedSpots \cap reserved_spots = {}
    /\ \A s \in SpotValues :
          is_free(s) <=> (s \notin OccupiedSpots /\ s \notin reserved_spots)

\* C2 witness: a state with a reserved spot, an occupied spot and a free spot.
C2_Witness ==
    /\ ~failed
    /\ reserved_spots # {}
    /\ OccupiedSpots # {}
    /\ \E s \in SpotValues : InRange(s) /\ is_free(s)

\* C3: reserve_spot(s) of an indexed free spot moves s from free to reserved;
\* a following add_parked_car(v at s) of a vehicle that is not parked moves
\* it to occupied: occupants[s] = v, parked_cars[v].spot = s, is_free(s) is
\* false and reserved_spots no longer holds s.
C3_FreeReservedOccupied ==
    [][\A s \in SpotValues :
        /\ (CalledWith("reserve_spot", 0, s) /\ is_free(s) /\ InRange(s))
            => /\ ~failed'
               /\ s \in reserved_spots'
               /\ s \notin DOMAIN occupants'
        /\ \A v \in CarIDs :
            (/\ CalledWith("add_parked_car", v, s)
             /\ last = [op |-> "reserve_spot", car |-> 0, spot |-> s]
             /\ v \notin DOMAIN parked_cars)
            => /\ ~failed'
               /\ s \in DOMAIN occupants'
               /\ occupants'[s] = v
               /\ v \in DOMAIN parked_cars'
               /\ parked_cars'[v].spot = s
               /\ ~is_free(s)'
               /\ s \notin reserved_spots']_vars

\* C3 witness: a car has been committed to the spot reserved just before.
C3_Witness ==
    /\ ~failed
    /\ last.op = "add_parked_car"
    /\ last.spot \in DOMAIN occupants
    /\ occupants[last.spot] = last.car
    /\ events # <<>>
    /\ events[Len(events)] = CarReachedParkingSpot(last.car, last.spot)

\* C4: reserve_spot(s) of a spot that is already reserved or already occupied
\* fails fatally: it is neither a silent no-op nor a second reservation.
C4_ReserveNonFreeFails ==
    [][\A s \in SpotValues :
        (CalledWith("reserve_spot", 0, s) /\ ~is_free(s))
          => /\ failed'
             /\ reserved_spots' = reserved_spots
             /\ occupants' = occupants]_vars

\* C4 witness: reserve_spot has failed on an occupied spot.
C4_Witness ==
    /\ failed
    /\ last.op = "reserve_spot"
    /\ last.spot \in DOMAIN occupants

\* C5: add_parked_car(p) fails fatally unless p.spot is reserved, p.spot is
\* not occupied and p.vehicle is not parked; so no step that does not fail
\* occupies a spot that was not reserved, or moves a parked vehicle's entry
\* to another spot.
C5_AddRequiresReservation ==
    [][/\ \A s \in SpotValues, v \in CarIDs :
            (/\ CalledWith("add_parked_car", v, s)
             /\ ~(s \in reserved_spots /\ s \notin DOMAIN occupants
                  /\ v \notin DOMAIN parked_cars))
            => failed'
       /\ ~failed' =>
            /\ \A s \in DOMAIN occupants' :
                  s \notin DOMAIN occupants => s \in reserved_spots
            /\ \A v \in DOMAIN parked_cars' :
                  v \in DOMAIN parked_cars => parked_cars'[v] = parked_cars[v]]_vars

\* C5 witness: add_parked_car has failed for a vehicle parked at another spot.
C5_Witness ==
    /\ failed
    /\ last.op = "add_parked_car"
    /\ last.car \in DOMAIN parked_cars
    /\ parked_cars[last.car].spot # last.spot

\* C6: remove_parked_car(p) fails fatally when p.vehicle is not parked or
\* p.spot is not occupied; when both are present it removes the vehicle
\* from parked_cars and the spot from occupants.
C6_RemoveFailsOrRemoves ==
    [][\A s \in SpotValues, v \in CarIDs :
        CalledWith("remove_parked_car", v, s) =>
            IF v \notin DOMAIN parked_cars \/ s \notin DOMAIN occupants
            THEN failed'
            ELSE /\ ~failed'
                 /\ v \notin DOMAIN parked_cars'
                 /\ s \notin DOMAIN occupants']_vars

\* C6 witness: remove_parked_car has failed on a parked vehicle and a spot
\* that is not occupied.
C6_Witness ==
    /\ failed
    /\ last.op = "remove_parked_car"
    /\ last.spot \notin DOMAIN occupants
    /\ events = <<>>
    /\ parked_cars = EmptyMap
    /\ occupants # EmptyMap

\* C7: a successful remove_parked_car(p) leaves reserved_spots unchanged and
\* the entries of every other vehicle and every other spot unchanged; after
\* it p.spot is free.
C7_RemoveFrame ==
    [][\A s \in SpotValues, v \in CarIDs :
        (CalledWith("remove_parked_car", v, s) /\ ~failed') =>
            /\ reserved_spots' = reserved_spots
            /\ DOMAIN parked_cars' \ {v} = DOMAIN parked_cars \ {v}
            /\ \A w \in DOMAIN parked_cars \ {v} : parked_cars'[w] = parked_cars[w]
            /\ DOMAIN occupants' \ {s} = DOMAIN occupants \ {s}
            /\ \A t \in DOMAIN occupants \ {s} : occupants'[t] = occupants[t]
            /\ is_free(s)']_vars

\* C7 witness: a car has been removed while another car stays parked and a
\* spot stays reserved.
C7_Witness ==
    /\ ~failed
    /\ last.op = "remove_parked_car"
    /\ reserved_spots # {}
    /\ parked_cars # EmptyMap
    /\ occupants # EmptyMap

\* C8: spots are reusable.  After remove_parked_car has freed s, a fresh
\* reserve_spot(s) succeeds, and the add_parked_car that follows it, of a
\* vehicle that is not parked, succeeds and makes get_car_at_spot(s) report
\* that vehicle; this holds at every step, so for any number of cycles.
C8_SpotsReusable ==
    [][\A s \in SpotValues :
        /\ (/\ CalledWith("reserve_spot", 0, s)
            /\ last.op = "remove_parked_car"
            /\ last.spot = s)
            => (~failed' /\ s \in reserved_spots')
        /\ \A v \in CarIDs :
            (/\ CalledWith("add_parked_car", v, s)
             /\ s \in reserved_spots
             /\ v \notin DOMAIN parked_cars)
            => (~failed' /\ get_car_at_spot(s)' = ParkedCar(v, s))]_vars

\* C8 witness: a car has left s and a different car has reached s since.
C8_Witness ==
    /\ ~failed
    /\ \E s \in SpotValues, v, w \in CarIDs :
          /\ v # w
          /\ events = <<CarLeftParkingSpot(v, s), CarReachedParkingSpot(w, s)>>
          /\ get_car_at_spot(s) = ParkedCar(w, s)

\* C9: in every state that has not failed, every spot that is reserved or
\* occupied, and the spot of every parked car, belongs to an indexed entity
\* and has an index below its capacity; reserve_spot of any other spot fails
\* fatally.
C9_SpotsInRange ==
    /\ [](~failed =>
            /\ \A s \in reserved_spots \cup DOMAIN occupants : InRange(s)
            /\ \A v \in DOMAIN parked_cars : InRange(parked_cars[v].spot))
    /\ [][\A s \in SpotValues :
            (CalledWith("reserve_spot", 0, s) /\ ~InRange(s)) => failed']_vars

\* C9 witness: reserve_spot has failed on a free spot of an indexed entity
\* whose index is out of range, with in-range spots reserved and occupied.
C9_Witness ==
    /\ failed
    /\ last.op = "reserve_spot"
    /\ last.spot.kind = "Onstreet"
    /\ last.spot.id \in DOMAIN onstreet_lanes
    /\ last.spot \notin DOMAIN occupants
    /\ last.spot.idx >= Len(onstreet_lanes[last.spot.id].spot_dist_along)
    /\ Cardinality(reserved_spots) >= 2
    /\ occupants # EmptyMap

\* The positions the enumerator is asked about: on every driving lane, the
\* lane's start and the points just before each access distance of the map.
QueryPositions == {Position(l, d) : l \in DrivingLanes, d \in {0, 9, 14, 19}}

\* The spots some free-spot query or search returns in the current state.
ReturnedSpots ==
    UNION {SeqToSet(get_free_onstreet_spots(l)) : l \in DOMAIN MapOf(map).lanes}
    \cup UNION {SeqToSet(get_free_offstreet_spots(b)) : b \in DOMAIN MapOf(map).buildings}
    \cup UNION {SeqToSet(get_free_lot_spots(pl)) : pl \in DOMAIN MapOf(map).lots}
    \cup {r.spot : r \in UNION {SeqToSet(get_all_free_spots(pos, v, t)) :
                                   pos \in QueryPositions, v \in Vehicles, t \in BuildingIDs}}
    \cup {r.spot : r \in {path_to_free_parking_spot(l, v, t) :
                             l \in DrivingLanes, v \in Vehicles, t \in BuildingIDs} \ {None}}

\* C10: from the return of reserve_spot(s) until a remove_parked_car frees s,
\* that is while s is reserved or occupied, no free-spot query
\* (get_free_onstreet_spots, get_free_offstreet_spots, get_free_lot_spots,
\* get_all_free_spots) and no path_to_free_parking_spot returns s; so a
\* search made right after a reservation never selects the reserved spot.
C10_ReservedNeverReturned ==
    ~failed => ReturnedSpots \cap (reserved_spots \cup DOMAIN occupants) = {}

\* C10 witness: the lot spot on lane 2 was reserved by the last call, and a
\* search from lane 1 that would have reached lane 2's lot now returns the
\* building's spot on that lane instead.
C10_Witness ==
    /\ ~failed
    /\ last.op = "reserve_spot"
    /\ last.spot.kind = "Lot"
    /\ last.spot \in reserved_spots
    /\ \E l \in DrivingLanes, v \in Vehicles, t \in BuildingIDs :
          LET r == path_to_free_parking_spot(l, v, t) IN
          /\ r # None
          /\ r.spot # last.spot
          /\ r.pos.lane = MapOf(map).lots[last.spot.id].driving_pos.lane

\* The spots a vehicle holds a claim on: reserved by it or occupied by it
DriverHolds(c, s) == drivers[c].pc \in {"reserved", "parked"} /\ drivers[c].spot = s

\* Every claim the store records belongs to exactly one vehicle, and a
\* vehicle's claim is recorded as exactly one of reservation and occupancy.
OneClaimPerSpot ==
    /\ ~failed
    /\ \A s \in reserved_spots \cup DOMAIN occupants :
          Cardinality({c \in CarIDs : DriverHolds(c, s)}) = 1
    /\ \A c \in CarIDs :
          /\ drivers[c].pc = "reserved" =>
                drivers[c].spot \in reserved_spots /\ drivers[c].spot \notin DOMAIN occupants
          /\ drivers[c].pc = "parked" =>
                /\ drivers[c].spot \notin reserved_spots
                /\ drivers[c].spot \in DOMAIN occupants
                /\ occupants[drivers[c].spot] = c

\* C11: contention on a stale candidate.  Of the vehicles that were told
\* about the same free spot s, the first to reserve holds s; a vehicle
\* that decides on s afterwards does not obtain it, leaves the store as
\* it is and is back to searching; and whatever the interleaving of the
\* search, reserve and arrive steps, the store never records two claims
\* on a spot.
C11_FirstReserverWins ==
    [][/\ OneClaimPerSpot'
       /\ \A c \in CarIDs :
            (drivers[c].pc = "chosen" /\ drivers'[c].pc # "chosen") =>
                IF is_free(drivers[c].spot)
                THEN /\ drivers'[c].pc = "reserved"
                     /\ reserved_spots' = reserved_spots \cup {drivers[c].spot}
                ELSE /\ drivers'[c].pc = "idle"
                     /\ reserved_spots' = reserved_spots
                     /\ occupants' = occupants
                     /\ ~failed']_vars

\* C11 witness: a vehicle was beaten to the spot it had been told about:
\* another vehicle holds it, and the beaten one is back to searching.
C11_Witness ==
    \E c1, c2 \in CarIDs :
        /\ c1 # c2
        /\ DriverHolds(c1, drivers[c2].spot)
        /\ drivers[c2].pc = "idle"

\* C12: a reservation cannot be cancelled.  A reserved spot is not free
\* after any step, and when it leaves reserved_spots the step is an
\* add_parked_car on that very spot, which leaves it occupied; so a
\* reserved spot whose vehicle never arrives stays reserved.
C12_NoCancel ==
    [][\A s \in SpotValues :
          s \in reserved_spots =>
             /\ ~is_free(s)'
             /\ s \notin reserved_spots' =>
                   /\ \E v \in CarIDs : CalledWith("add_parked_car", v, s)
                   /\ s \in DOMAIN occupants']_vars

\* C12 witness: a spot has stayed reserved through the arrival and the
\* departure of a vehicle at another spot.
C12_Witness ==
    /\ ~failed
    /\ last.op = "remove_parked_car"
    /\ \E s \in reserved_spots : s # last.spot

----------------------------------------------------------------------------
(* Properties of the search *)

\* One round of relaxation of the route distances D over the turns of m
RelaxOnce(m, D) ==
    LET reached == DOMAIN D \cup {t.dst : t \in {x \in m.turns : x.src \in DOMAIN D}}
        into(l) == {D[t.src] + lane_length(m, t.src) + t.length :
                       t \in {x \in m.turns : x.dst = l /\ x.src \in DOMAIN D}}
    IN [l \in reached |-> MinOf(into(l) \cup (IF l \in DOMAIN D THEN {D[l]} ELSE {}))]

RECURSIVE Relax(_, _, _)
Relax(m, D, n) == IF n = 0 THEN D ELSE Relax(m, RelaxOnce(m, D), n - 1)

\* For every lane reachable from start through turns, the least sum of the
\* lengths of the lanes and turns driven from the beginning of start to
\* the beginning of the lane.
RouteDistances(start) ==
    Relax(MapOf(map), start :> 0, Cardinality(DOMAIN MapOf(map).lanes))

\* The lanes other than start that turns lead to from start
ReachableLanes(start) == DOMAIN RouteDistances(start) \ {start}

\* The enumerator reports a free spot from the beginning of lane l
HasVisibleFreeSpot(l, c, target) ==
    get_all_free_spots(Position(l, 0), Vehicle(c), target) # <<>>

\* The length of the turn from src to dst
TurnLength(src, dst) ==
    (CHOOSE t \in MapOf(map).turns : t.src = src /\ t.dst = dst).length

\* The distance driven along a path: per turn, the lane it leaves and the turn
PathDistance(steps) ==
    LET turnAt == {i \in 1..Len(steps) : steps[i].step = "Turn"}
        cost[S \in SUBSET turnAt] ==
            IF S = {} THEN 0
            ELSE LET i == CHOOSE x \in S : TRUE
                 IN lane_length(MapOf(map), steps[i].src)
                    + TurnLength(steps[i].src, steps[i].dst) + cost[S \ {i}]
    IN cost[turnAt]

\* The search has returned a hit
SearchHit == search.pc = "done" /\ search.result # None

\* The lane of the hit: the last step of the returned path
HitLane == search.result.steps[Len(search.result.steps)].lane

\* The step-by-step search returns what the function returns
SearchAgrees ==
    search.pc = "done" =>
        search.result = path_to_free_parking_spot(search.start, Vehicle(search.vehicle),
                                                  search.target)

\* C13: the search finds the closest lane with a free spot.  When it
\* returns a spot on lane L, no lane other than start that is reachable
\* from start and has a free spot visible from its beginning is strictly
\* closer to start than L, and the returned path has that least distance.
C13_ClosestLane ==
    SearchHit =>
        LET D == RouteDistances(search.start) IN
        /\ \A l \in ReachableLanes(search.start) :
              HasVisibleFreeSpot(l, search.vehicle, search.target) => D[HitLane] <= D[l]
        /\ PathDistance(search.result.steps) = D[HitLane]

\* An indexed spot is free although the search could not offer it
HiddenFreeSpot == \E s \in SpotValues : InRange(s) /\ is_free(s)

\* C14: the search returns None exactly when no lane other than start
\* that turns lead to from start has a free spot the enumerator reports
\* from that lane's beginning for the vehicle and target; otherwise it
\* returns a hit.
C14_NotFoundIffNoneVisible ==
    search.pc = "done" =>
        (search.result = None <=>
            ~\E l \in ReachableLanes(search.start) :
                HasVisibleFreeSpot(l, search.vehicle, search.target))

\* C14 witness: the search explored other lanes and returned None while
\* some spot of the network is free (on start, or not visible).
C14_Witness ==
    /\ search.pc = "done"
    /\ search.result = None
    /\ ReachableLanes(search.start) # {}
    /\ HiddenFreeSpot

\* What is left to do in the queue loop: the queued entries, and two for
\* every lane of the network no turn has reached yet
LoopMeasure(q, b) == Len(q) + 2 * Cardinality(DOMAIN MapOf(map).lanes \ DOMAIN b)

\* C15: the search terminates on every lane graph, cycles and cycles
\* through start included.  Every round of the queue loop that does not
\* leave the loop lowers LoopMeasure, every round of the backreference
\* walk moves to a lane the walk has not visited, and a call that has
\* started returns.
C15_Terminates ==
    /\ [][/\ (search.pc = "loop" /\ search'.pc = "loop") =>
                /\ LoopMeasure(search'.queue, search'.backrefs)
                      < LoopMeasure(search.queue, search.backrefs)
                /\ LoopMeasure(search'.queue, search'.backrefs) >= 0
          /\ (search.pc = "rebuild" /\ search'.pc = "rebuild") =>
                /\ search.current # search.start
                /\ \A i \in 1..Len(search.steps) :
                      search.steps[i].step = "Lane" =>
                          search.steps[i].lane # search'.current]_vars
    /\ (search.pc \in {"loop", "rebuild"}) ~> (search.pc = "done")

\* C15 witness: a search has returned a hit after start was reached again
\* through a cycle of turns.
C15_Witness ==
    /\ search.pc = "rebuild"
    /\ search.start \in DOMAIN search.backrefs

\* The driving lane a spot is accessed from, read off the network
AccessLane(spot) ==
    CASE spot.kind = "Onstreet" -> MapOf(map).lanes[spot.id].driving
      [] spot.kind = "Offstreet" -> MapOf(map).buildings[spot.id].driving_pos.lane
      [] spot.kind = "Lot" -> MapOf(map).lots[spot.id].driving_pos.lane

\* C16: on a hit the returned path is in forward order and alternates
\* Turn, Lane: an even number of steps, the first a Turn out of start,
\* every Turn a turn of the network followed by the Lane it leads to and
\* (after the first) preceded by the Lane it leaves, Lane(start) nowhere,
\* the last step the Lane the returned spot is accessed from; the
\* returned position is spot_to_driving_pos of the returned spot.  From
\* lane 1 with the hit on lane 2 the path is [Turn(1->2), Lane(2)].
C16_PathShape ==
    SearchHit =>
        LET steps == search.result.steps
            n == Len(steps)
        IN /\ n >= 2 /\ n % 2 = 0
           /\ \A i \in 1..n :
                 IF i % 2 = 1
                 THEN /\ steps[i].step = "Turn"
                      /\ steps[i].src = (IF i = 1 THEN search.start ELSE steps[i - 1].lane)
                      /\ steps[i].dst = steps[i + 1].lane
                      /\ \E t \in MapOf(map).turns :
                            t.src = steps[i].src /\ t.dst = steps[i].dst
                 ELSE /\ steps[i].step = "Lane"
                      /\ steps[i].lane # search.start
           /\ steps[n].lane = AccessLane(search.result.spot)
           /\ search.result.pos
                 = spot_to_driving_pos(search.result.spot, Vehicle(search.vehicle))
           /\ (search.start = 1 /\ steps[n].lane = 2) =>
                 steps = <<[step |-> "Turn", src |-> 1, dst |-> 2],
                           [step |-> "Lane", lane |-> 2]>>

\* C16 witness: a hit two turns away from lane 1
C16_Witness ==
    /\ SearchHit
    /\ search.start = 1
    /\ Len(search.result.steps) = 4

\* C17: the search never returns a spot accessed from the start lane,
\* and when the only free spots of the network are accessed from the
\* start lane it returns None.
C17_NeverStartLane ==
    /\ SearchHit =>
          /\ AccessLane(search.result.spot) # search.start
          /\ HitLane # search.start
    /\ (/\ search.pc = "done"
        /\ \A s \in SpotValues :
              (InRange(s) /\ is_free(s)) => AccessLane(s) = search.start)
          => search.result = None

\* C17 witness: from lane 1, which turns lead back to, the search
\* returned None although lane 1 has a free spot visible from its
\* beginning.
C17_Witness ==
    /\ search.pc = "done"
    /\ search.result = None
    /\ \E t \in MapOf(map).turns :
          t.dst = search.start /\ t.src \in ReachableLanes(search.start)
    /\ HasVisibleFreeSpot(search.start, search.vehicle, search.target)

----------------------------------------------------------------------------
(* Properties of the enumerator *)

\* The positions asked about: on lane 1 around the front offsets of the
\* on-street spot (14 for vehicle 1, 15 for the others), on lane 2 just
\* before and at the building (10) and the lot (20).
AheadPositions ==
    {Position(1, d) : d \in {13, 14, 15}} \cup {Position(2, d) : d \in {9, 10, 19, 20}}

\* Where the front of vehicle c is when it stands in an on-street spot
FrontOffset(spot, c) ==
    PARKING_SPOT_LENGTH * (2 + spot.idx) - (PARKING_SPOT_LENGTH - VehicleLength(c)) \div 2

\* The distance at which a spot is reached and the distance of the
\* vehicle, both in the frame the enumerator compares them in
SpotDistance(spot, c) ==
    CASE spot.kind = "Onstreet" -> FrontOffset(spot, c)
      [] spot.kind = "Offstreet" -> MapOf(map).buildings[spot.id].driving_pos.dist_along
      [] spot.kind = "Lot" -> MapOf(map).lots[spot.id].driving_pos.dist_along

VehicleDistance(spot, pos) ==
    IF spot.kind = "Onstreet"
    THEN Min2(pos.dist_along, MapOf(map).lanes[spot.id].length)
    ELSE pos.dist_along

\* C18: get_all_free_spots returns only free spots strictly ahead of the
\* position: a returned spot is neither reserved nor occupied, is accessed
\* from the lane of the position, and its distance (the entity's access
\* distance, or the on-street spot's front offset for the vehicle) is
\* strictly greater than the vehicle's (translated onto the parking lane
\* for an on-street spot).
C18_OnlyFreeAhead ==
    ~failed =>
        \A pos \in AheadPositions, c \in CarIDs, target \in BuildingIDs :
            \A r \in SeqToSet(get_all_free_spots(pos, Vehicle(c), target)) :
                /\ r.spot \notin reserved_spots
                /\ r.spot \notin DOMAIN occupants
                /\ AccessLane(r.spot) = pos.lane
                /\ SpotDistance(r.spot, c) > VehicleDistance(r.spot, pos)

\* C18 witness: with one spot occupied and one reserved, the free lot is
\* returned one metre before its access point and not at it.
C18_Witness ==
    /\ ~failed
    /\ occupants # EmptyMap
    /\ reserved_spots # {}
    /\ is_free(Lot(1, 0))
    /\ get_all_free_spots(Position(2, 19), Vehicle(1), 1) # <<>>
    /\ get_all_free_spots(Position(2, 20), Vehicle(1), 1) = <<>>

\* The positions asked about on the search networks: each lane's
\* beginning and the access point of the private building
FilterPositions == {Position(l, d) : l \in DrivingLanes, d \in {0, 2}}

\* The spots get_all_free_spots returns
FreeSpotsAt(pos, c, target) ==
    {r.spot : r \in SeqToSet(get_all_free_spots(pos, Vehicle(c), target))}

\* The building has no public garage
PrivateBuilding(b) == ~MapOf(map).buildings[b].public_garage

\* C19: the privacy filter.  An off-street spot of a building without
\* public parking is returned only when the target is that building; every
\* other free spot strictly ahead on the lane is returned whatever the
\* target: the spots of a public garage, of a lot and of a parking lane;
\* and so is the private building's for its own target.
C19_PrivacyFilter ==
    (~failed /\ search.pc = "idle") =>
        \A pos \in FilterPositions, c \in CarIDs, target \in BuildingIDs :
            /\ \A s \in FreeSpotsAt(pos, c, target) :
                  (s.kind = "Offstreet" /\ PrivateBuilding(s.id)) => target = s.id
            /\ \A s \in SpotValues :
                  (/\ InRange(s)
                   /\ is_free(s)
                   /\ AccessLane(s) = pos.lane
                   /\ SpotDistance(s, c) > VehicleDistance(s, pos)
                   /\ (s.kind = "Offstreet" /\ PrivateBuilding(s.id)) => target = s.id)
                      => s \in FreeSpotsAt(pos, c, target)

\* C19 witness: after a reservation elsewhere the private building's free
\* spot is returned for its own target and not for the garage's, and the
\* garage's free spot is returned for both.
C19_Witness ==
    /\ ~failed
    /\ search.pc = "idle"
    /\ reserved_spots # {}
    /\ Offstreet(1, 0) \in FreeSpotsAt(Position(3, 0), 1, 1)
    /\ Offstreet(1, 0) \notin FreeSpotsAt(Position(3, 0), 1, 2)
    /\ Offstreet(2, 0) \in FreeSpotsAt(Position(5, 0), 1, 1)
    /\ Offstreet(2, 0) \in FreeSpotsAt(Position(5, 0), 1, 2)

----------------------------------------------------------------------------
(* Properties of the event log *)

\* C20: the log gains exactly the 'reached' event of each successful
\* add_parked_car and the 'left' event of each successful
\* remove_parked_car, at its end; reserve_spot leaves it alone;
\* collect_events returns the whole log in that order and empties it, so
\* a collect_events right after another returns the empty sequence and
\* no event is returned twice or lost.
C20_EventsDrained ==
    [][/\ \A v \in CarIDs, s \in SpotValues :
            /\ (CalledWith("add_parked_car", v, s) /\ ~failed') =>
                  events' = events \o <<[ev |-> "CarReachedParkingSpot",
                                         car |-> v, spot |-> s]>>
            /\ (CalledWith("remove_parked_car", v, s) /\ ~failed') =>
                  events' = events \o <<[ev |-> "CarLeftParkingSpot",
                                         car |-> v, spot |-> s]>>
            /\ CalledWith("reserve_spot", 0, s) => events' = events
       /\ CalledWith("collect_events", 0, None) =>
            /\ returned' = events
            /\ events' = <<>>
            /\ last.op = "collect_events" => returned' = <<>>]_vars

\* C20 witness: one drain returned a 'reached' event followed by a 'left'
\* event and left the log empty.
C20_Witness ==
    /\ last.op = "collect_events"
    /\ Len(returned) = 2
    /\ returned[1].ev = "CarReachedParkingSpot"
    /\ returned[2].ev = "CarLeftParkingSpot"
    /\ events = <<>>

----------------------------------------------------------------------------
(* Properties of the read-only queries *)

\* A sequence without repeated elements
NoRepeats(s) == \A i, j \in 1..Len(s) : s[i] = s[j] => i = j

\* The spots the store indexes, and their number
IndexedSpots == {s \in SpotValues : InRange(s)}

RECURSIVE SumOver(_, _)
\* The sum of f over the keys in S
SumOver(f, S) ==
    IF S = {} THEN 0
    ELSE LET k == CHOOSE x \in S : TRUE IN f[k] + SumOver(f, S \ {k})

TotalCapacity ==
    SumOver([l \in DOMAIN onstreet_lanes |-> Len(onstreet_lanes[l].spot_dist_along)],
            DOMAIN onstreet_lanes)
    + SumOver(num_spots_per_offstreet, DOMAIN num_spots_per_offstreet)
    + SumOver(num_spots_per_lot, DOMAIN num_spots_per_lot)

\* C21: get_all_parking_spots returns a partition (filled, available) of
\* the indexed spots: no spot is listed twice, the two lists together hold
\* exactly the indexed spots, available is exactly the free ones, filled is
\* exactly the reserved or occupied ones (a reserved spot counts as
\* filled), and the two lengths add up to the total indexed capacity.
C21_Partition ==
    ~failed =>
        LET r == get_all_parking_spots
            filled == SeqToSet(r.filled)
            available == SeqToSet(r.available)
        IN /\ NoRepeats(r.filled \o r.available)
           /\ filled \cup available = IndexedSpots
           /\ filled \cap available = {}
           /\ available = {s \in IndexedSpots : is_free(s)}
           /\ filled = reserved_spots \cup DOMAIN occupants
           /\ Len(r.filled) + Len(r.available) = TotalCapacity

\* C21 witness: one spot is reserved, one occupied and one free: two
\* filled, one available.
C21_Witness ==
    /\ ~failed
    /\ reserved_spots # {}
    /\ occupants # EmptyMap
    /\ Len(get_all_parking_spots.filled) = 2
    /\ Len(get_all_parking_spots.available) = 1
    /\ \E s \in reserved_spots : s \in SeqToSet(get_all_parking_spots.filled)

\* The entity ids the per-entity queries are asked about: those of the
\* network and one that is not in it
QueryLanes == DOMAIN MapOf(map).lanes \cup {99}
QueryBuildings == DOMAIN MapOf(map).buildings \cup {99}
QueryLots == DOMAIN MapOf(map).lots \cup {99}

\* r lists exactly the free indexed spots of one entity, by rising index
FreeOfEntity(r, kind, id) ==
    /\ \A i \in 1..Len(r) : r[i].kind = kind /\ r[i].id = id
    /\ \A i \in 1..(Len(r) - 1) : r[i].idx < r[i + 1].idx
    /\ SeqToSet(r) = {s \in IndexedSpots : s.kind = kind /\ s.id = id /\ is_free(s)}

\* r without the spot s, the others in their order
Without(r, s) == LET other(x) == x # s IN SelectSeq(r, other)

\* C22: get_free_onstreet_spots(l), get_free_offstreet_spots(b) and
\* get_free_lot_spots(pl) return exactly the free spots of the entity, in
\* strictly increasing index order; a reserve_spot(s) removes exactly s from
\* the result that follows and keeps every other spot in it; with three
\* free slots, after reserving slot 1 the slots 0 and 2 remain.
C22_FreePerEntity ==
    /\ [](~failed =>
            /\ \A l \in QueryLanes : FreeOfEntity(get_free_onstreet_spots(l), "Onstreet", l)
            /\ \A b \in QueryBuildings :
                  FreeOfEntity(get_free_offstreet_spots(b), "Offstreet", b)
            /\ \A pl \in QueryLots : FreeOfEntity(get_free_lot_spots(pl), "Lot", pl))
    /\ [][\A s \in SpotValues :
            (CalledWith("reserve_spot", 0, s) /\ ~failed') =>
                /\ \A l \in QueryLanes :
                      /\ get_free_onstreet_spots(l)' = Without(get_free_onstreet_spots(l), s)
                      /\ (s = Onstreet(l, 1) /\ Len(get_free_onstreet_spots(l)) = 3)
                            => get_free_onstreet_spots(l)' = <<Onstreet(l, 0), Onstreet(l, 2)>>
                /\ \A b \in QueryBuildings :
                      get_free_offstreet_spots(b)' = Without(get_free_offstreet_spots(b), s)
                /\ \A pl \in QueryLots :
                      get_free_lot_spots(pl)' = Without(get_free_lot_spots(pl), s)]_vars

\* C22 witness: slot 1 of the three-slot parking lane has just been
\* reserved and the query returns slots 0 and 2.
C22_Witness ==
    /\ ~failed
    /\ last = [op |-> "reserve_spot", car |-> 0, spot |-> Onstreet(11, 1)]
    /\ reserved_spots = {Onstreet(11, 1)}
    /\ get_free_onstreet_spots(11) = <<Onstreet(11, 0), Onstreet(11, 2)>>

----------------------------------------------------------------------------
(* Properties of the construction *)

\* The spot values of the entities whose driving lane is a blackhole
BlackholedSpotsOf ==
    [n \in AllMaps |->
        LET m == MapOf(n)
            access(s) ==
                CASE s.kind = "Onstreet" -> m.lanes[s.id].driving
                  [] s.kind = "Offstreet" -> m.buildings[s.id].driving_pos.lane
                  [] s.kind = "Lot" -> m.lots[s.id].driving_pos.lane
        IN {s \in SpotValuesOf[n] :
               access(s) \in DOMAIN m.lanes /\ m.lanes[access(s)].parking_blackhole}]
BlackholedSpots == BlackholedSpotsOf[map]

\* The driving lanes marked as blackholes
BlackholeLanesOf ==
    [n \in AllMaps |-> {l \in DOMAIN MapOf(n).lanes : MapOf(n).lanes[l].parking_blackhole}]
BlackholeLanes == BlackholeLanesOf[map]

\* Every id stored in an adjacency index
IndexedUnder(mm) == UNION {mm[k] : k \in DOMAIN mm}

\* No index has an entry for an entity of a blackholed spot or for a
\* blackhole lane
BlackholesNotIndexed ==
    /\ \A s \in BlackholedSpots :
          CASE s.kind = "Onstreet" ->
                  /\ s.id \notin DOMAIN onstreet_lanes
                  /\ s.id \notin IndexedUnder(driving_to_parking_lanes)
            [] s.kind = "Offstreet" ->
                  /\ s.id \notin DOMAIN num_spots_per_offstreet
                  /\ s.id \notin IndexedUnder(driving_to_offstreet)
            [] s.kind = "Lot" ->
                  /\ s.id \notin DOMAIN num_spots_per_lot
                  /\ s.id \notin IndexedUnder(driving_to_lots)
    /\ \A l \in BlackholeLanes :
          /\ l \notin DOMAIN driving_to_parking_lanes
          /\ l \notin DOMAIN driving_to_offstreet
          /\ l \notin DOMAIN driving_to_lots

\* C23 as stated: a spot whose driving lane is a blackhole is in no index
\* and never appears as free (is_free is false of it and no query returns
\* it), reserved or occupied.
C23_BlackholeNeverFree ==
    ~failed =>
        /\ BlackholesNotIndexed
        /\ \A s \in BlackholedSpots :
              /\ ~is_free(s)
              /\ s \notin ReturnedSpots \cup SeqToSet(all_spots)
              /\ s \notin reserved_spots
              /\ s \notin DOMAIN occupants

\* C23 amended: a spot whose driving lane is a blackhole is in no index; in
\* every state that has not failed no query or search returns it and it is
\* neither reserved nor occupied, and reserve_spot of it fails fatally;
\* is_free, which reads only occupants and reserved_spots, is true of it.
C23_BlackholeExcluded ==
    /\ [](~failed =>
            /\ BlackholesNotIndexed
            /\ \A s \in BlackholedSpots :
                  /\ is_free(s)
                  /\ s \notin reserved_spots
                  /\ s \notin DOMAIN occupants
            /\ (ReturnedSpots \cup SeqToSet(all_spots)) \cap BlackholedSpots = {})
    /\ [][(~failed /\ last'.op = "reserve_spot" /\ last'.spot \in BlackholedSpots)
             => failed']_vars

\* C23 witness: every indexed spot is reserved or occupied, so the only
\* spots is_free is true of are the blackholed ones, and nothing is returned.
C23_Witness ==
    /\ ~failed
    /\ BlackholedSpots # {}
    /\ occupants # EmptyMap
    /\ \A s \in IndexedSpots : ~is_free(s)
    /\ ReturnedSpots = {}
    /\ get_all_parking_spots.available = <<>>

\* C24: after construction no parking lane, building or lot of zero spot
\* capacity has an entry in any index: every key of onstreet_lanes,
\* num_spots_per_offstreet and num_spots_per_lot has capacity at least 1,
\* and so has every lane, building and lot stored in an adjacency index.
C24_NoZeroCapacity ==
    ~failed =>
        /\ \A l \in DOMAIN onstreet_lanes : Len(onstreet_lanes[l].spot_dist_along) >= 1
        /\ \A b \in DOMAIN num_spots_per_offstreet : num_spots_per_offstreet[b] >= 1
        /\ \A pl \in DOMAIN num_spots_per_lot : num_spots_per_lot[pl] >= 1
        /\ \A l \in IndexedUnder(driving_to_parking_lanes) :
              MapOf(map).lanes[l].number_parking_spots >= 1
        /\ \A b \in IndexedUnder(driving_to_offstreet) :
              MapOf(map).buildings[b].num_spots >= 1
        /\ \A pl \in IndexedUnder(driving_to_lots) :
              MapOf(map).lots[pl].num_spots >= 1

\* The parking lanes of the network, and what is wrong with each
ParkingLanesOf(m) == {l \in DOMAIN m.lanes : m.lanes[l].lane_type = "Parking"}
Orphan(m, l) == m.lanes[l].driving = 0
OnBlackhole(m, l) == ~Orphan(m, l) /\ m.lanes[m.lanes[l].driving].parking_blackhole
NoSidewalk(m, l) == m.lanes[l].sidewalk = 0

\* Lane l is indexed as on-street parking
IndexedOnstreet(l) ==
    l \in DOMAIN onstreet_lanes \/ l \in IndexedUnder(driving_to_parking_lanes)

\* C25: the two tiers of lane misconfiguration at construction.  A parking
\* lane with no paired driving lane aborts the construction: new() panics
\* and there is no store.  Otherwise the construction goes through: a
\* parking lane on a blackhole driving lane or without an adjacent sidewalk
\* is in neither onstreet_lanes nor driving_to_parking_lanes, the missing
\* sidewalk (found when the driving lane is no blackhole) is warned about,
\* every other parking lane is indexed under its driving lane, the lots
\* are indexed as well, and no lane of another type is indexed.
C25_ConstructionTiers ==
    LET m == MapOf(map) IN
    IF \E l \in ParkingLanesOf(m) : Orphan(m, l)
    THEN /\ failed
         /\ last.op = "new"
         /\ onstreet_lanes = EmptyMap /\ driving_to_parking_lanes = EmptyMap
         /\ num_spots_per_offstreet = EmptyMap /\ driving_to_offstreet = EmptyMap
         /\ num_spots_per_lot = EmptyMap /\ driving_to_lots = EmptyMap
    ELSE /\ last.op = "new" => ~failed
         /\ \A l \in ParkingLanesOf(m) :
               IF OnBlackhole(m, l) \/ NoSidewalk(m, l)
               THEN /\ ~IndexedOnstreet(l)
                    /\ (NoSidewalk(m, l) /\ ~OnBlackhole(m, l)) => l \in new_warnings(m)
               ELSE /\ l \in DOMAIN onstreet_lanes
                    /\ l \notin new_warnings(m)
                    /\ m.lanes[l].driving \in DOMAIN driving_to_parking_lanes
                    /\ l \in driving_to_parking_lanes[m.lanes[l].driving]
         /\ \A l \in DOMAIN m.lanes \ ParkingLanesOf(m) :
               ~IndexedOnstreet(l) /\ l \notin new_warnings(m)
         /\ \A pl \in DOMAIN m.lots :
               (m.lots[pl].num_spots > 0
                /\ ~m.lanes[m.lots[pl].driving_pos.lane].parking_blackhole)
                  => pl \in DOMAIN num_spots_per_lot

\* C25 witness: the store was built without the parking lane that has no
\* sidewalk and without the one on the blackhole, and the spot of the
\* remaining parking lane has since been occupied.
C25_Witness ==
    /\ ~failed
    /\ 14 \in new_warnings(MapOf(map))
    /\ ~IndexedOnstreet(14)
    /\ ~IndexedOnstreet(13)
    /\ Onstreet(11, 0) \in DOMAIN occupants

\* The construction was aborted: there is no store
C25_Aborted ==
    /\ failed
    /\ last.op = "new"
    /\ \E l \in ParkingLanesOf(MapOf(map)) : Orphan(MapOf(map), l)

----------------------------------------------------------------------------
(* Frame properties *)

\* C26: the capacity tables and the adjacency indexes are fixed at
\* construction: every reserve_spot, add_parked_car, remove_parked_car and
\* collect_events, failing or not, leaves onstreet_lanes,
\* driving_to_parking_lanes, num_spots_per_offstreet, driving_to_offstreet,
\* num_spots_per_lot and driving_to_lots as they are, so the set of
\* indexed spots is the same in every reachable state.
C26_IndexesFixed ==
    [][/\ last'.op \in {"reserve_spot", "add_parked_car", "remove_parked_car",
                        "collect_events"}
       /\ onstreet_lanes' = onstreet_lanes
       /\ driving_to_parking_lanes' = driving_to_parking_lanes
       /\ num_spots_per_offstreet' = num_spots_per_offstreet
       /\ driving_to_offstreet' = driving_to_offstreet
       /\ num_spots_per_lot' = num_spots_per_lot
       /\ driving_to_lots' = driving_to_lots
       /\ map' = map
       /\ IndexedSpots' = IndexedSpots]_vars

\* C26 witness: reservations, arrivals, a drain of the log and a departure
\* have happened (a car is parked, yet the log holds only the departure
\* of another), and the indexes are those new() built.
C26_Witness ==
    /\ ~failed
    /\ last.op = "remove_parked_car"
    /\ Len(events) = 1
    /\ occupants # EmptyMap
    /\ reserved_spots # {}
    /\ onstreet_lanes = new_onstreet_lanes(MapOf(map))
    /\ num_spots_per_lot = new_num_spots_per_lot(MapOf(map))
    /\ Cardinality(IndexedSpots) = 3

\* C27: the search and every query only read.  A step that is a call of
\* path_to_free_parking_spot, get_all_free_spots, get_free_*_spots,
\* is_free, get_car_at_spot, lookup_parked_car, get_owner_of_car or
\* get_all_parking_spots leaves parked_cars, occupants, reserved_spots and
\* events unchanged (a search reserves nothing), and when the call before
\* it, with no mutation in between, was the same call, it returns the same.
C27_QueriesOnlyRead ==
    [][returned' # <<>> =>
          /\ parked_cars' = parked_cars
          /\ occupants' = occupants
          /\ reserved_spots' = reserved_spots
          /\ events' = events
          /\ (/\ returned # <<>>
              /\ returned[1].query = returned'[1].query
              /\ returned[1].args = returned'[1].args)
                => returned'[1].result = returned[1].result]_vars

\* C27 witness: a search has returned a spot while another spot is
\* reserved and a car is parked; the returned spot is still free.
C27_Witness ==
    /\ ~failed
    /\ returned # <<>>
    /\ returned[1].query = "path_to_free_parking_spot"
    /\ returned[1].result # None
    /\ is_free(returned[1].result.spot)
    /\ reserved_spots \cup DOMAIN occupants # {}

----------------------------------------------------------------------------
(* Properties of the search's choices *)

\* The order in which the enumerator lists the kinds of spot
KindRank(kind) == CASE kind = "Onstreet" -> 1 [] kind = "Offstreet" -> 2 [] kind = "Lot" -> 3

\* What get_all_free_spots reports from the beginning of the hit lane
FoundAtHit ==
    get_all_free_spots(Position(HitLane, 0), Vehicle(search.vehicle), search.target)

\* C28: at the lane where the search hits, the returned spot is one of the
\* spots get_all_free_spots reports from the lane's beginning (on-street
\* before off-street before lot, lowest index first within an entity), its
\* access distance is the least of theirs, the returned position is its
\* spot_to_driving_pos, and of several spots at the least distance the
\* first reported is returned.
C28_ClosestSpotOnLane ==
    SearchHit =>
        LET found == FoundAtHit
            r == search.result
        IN /\ \A i, j \in 1..Len(found) :
                 i < j =>
                    /\ KindRank(found[i].spot.kind) <= KindRank(found[j].spot.kind)
                    /\ (found[i].spot.kind = found[j].spot.kind
                        /\ found[i].spot.id = found[j].spot.id)
                          => found[i].spot.idx < found[j].spot.idx
           /\ \E i \in 1..Len(found) :
                 /\ found[i].spot = r.spot
                 /\ found[i].pos = r.pos
                 /\ \A j \in 1..Len(found) :
                       /\ r.pos.dist_along <= found[j].pos.dist_along
                       /\ j < i => r.pos.dist_along < found[j].pos.dist_along
           /\ r.pos = spot_to_driving_pos(r.spot, Vehicle(search.vehicle))

\* C28 witness: on lane 2 an on-street spot, the garage and both spots of
\* the lot are free at the same least distance, and the on-street spot is
\* returned.
C28_Witness ==
    /\ SearchHit
    /\ HitLane = 2
    /\ search.result.spot.kind = "Onstreet"
    /\ Cardinality({i \in 1..Len(FoundAtHit) :
                       FoundAtHit[i].pos.dist_along = search.result.pos.dist_along}) >= 4

\* The search written with a min-priority-queue of (distance, lane)
\* entries, the distances not negated.  MinQueueIndex is the position such
\* a queue pops: the least distance and, among equal distances, the least
\* lane id (ascending) or the greatest (not ascending).
MinQueueIndex(q, ascending) ==
    CHOOSE i \in 1..Len(q) : \A j \in 1..Len(q) :
        \/ q[i][1] < q[j][1]
        \/ /\ q[i][1] = q[j][1]
           /\ IF ascending THEN q[i][2] <= q[j][2] ELSE q[i][2] >= q[j][2]

\* The heap's entries as the min-priority-queue holds them
Unnegated(queue) == [i \in 1..Len(queue) |-> <<0 - queue[i][1], queue[i][2]>>]

RECURSIVE MinQueueExpand(_, _, _, _, _)
MinQueueExpand(turns, current, dist_so_far, backrefs, q) ==
    IF turns = <<>> THEN <<backrefs, q>>
    ELSE LET turn == Head(turns) IN
         IF turn.dst \notin DOMAIN backrefs
         THEN MinQueueExpand(Tail(turns), current, dist_so_far,
                             MapPut(backrefs, turn.dst, turn),
                             Append(q, <<dist_so_far + turn.length
                                             + lane_length(MapOf(map), current),
                                         turn.dst>>))
         ELSE MinQueueExpand(Tail(turns), current, dist_so_far, backrefs, q)

RECURSIVE MinQueueSearch(_, _, _, _, _, _)
MinQueueSearch(q, backrefs, start, vehicle, target, ascending) ==
    IF q = <<>> THEN None
    ELSE LET i == MinQueueIndex(q, ascending)
             current == q[i][2]
             rest == SubSeq(q, 1, i - 1) \o SubSeq(q, i + 1, Len(q))
             found == IF current # start
                      THEN get_all_free_spots(Position(current, 0), vehicle, target)
                      ELSE <<>>
         IN IF found # <<>>
            THEN [steps |-> rebuild_path(<<PathStepLane(current)>>, current, start, backrefs),
                  spot |-> min_by_key(found).spot,
                  pos |-> min_by_key(found).pos]
            ELSE LET next == MinQueueExpand(get_turns_for(MapOf(map), current), current,
                                            q[i][1], backrefs, rest)
                 IN MinQueueSearch(next[2], next[1], start, vehicle, target, ascending)

\* The position the min-priority-queue pops is the position the heap pops,
\* and the search with the min-priority-queue returns what the call returned
AgreesWithMinQueue(ascending) ==
    /\ (search.pc = "loop" /\ search.queue # <<>>) =>
          heap_max_index(search.queue) = MinQueueIndex(Unnegated(search.queue), ascending)
    /\ search.pc = "done" =>
          search.result = MinQueueSearch(<<<<0, search.start>>>>, EmptyMap, search.start,
                                         Vehicle(search.vehicle), search.target, ascending)

\* C29 as stated: the max-heap over (negated distance, lane id) pops the
\* lanes in the order of a min-priority-queue ordered by (distance, lane
\* id) ascending, also when queued lanes have equal distances, and both
\* formulations return the same path and spot.
C29_SameAsAscendingMinQueue == AgreesWithMinQueue(TRUE)

\* C29 amended: the max-heap over (negated distance, lane id) pops the
\* lanes in the order of a min-priority-queue ordered by distance ascending
\* and, among equal distances, by lane id descending, and both
\* formulations return the same path and spot.
C29_SameAsMinQueueLaneDescending == AgreesWithMinQueue(FALSE)

\* C29 witness: the lanes 2 and 3 were queued at the same distance, both
\* have a free spot in sight, and the search returned the spot on lane 3.
C29_Witness ==
    /\ SearchHit
    /\ search.start = 1
    /\ HitLane = 3
    /\ HasVisibleFreeSpot(2, search.vehicle, search.target)

\* The distance of a heap entry
EntryDistance(e) == 0 - e[1]

\* C30: the lanes are popped in non-decreasing order of their recorded
\* distance.  The call starts with the start lane at distance zero; a lane
\* is recorded when it is first discovered, at the popped distance of the
\* lane it is discovered from plus that lane's full length plus the
\* turn's length; no entry left in the queue or pushed during a round is
\* closer than the lane popped in that round, so neither is the next pop.
C30_PopsNonDecreasing ==
    [][/\ (search.pc = "idle" /\ search'.pc = "loop") =>
              search'.queue = <<<<0, search'.start>>>>
       /\ (search.pc = "loop" /\ search.queue # <<>> /\ search'.pc = "loop") =>
              LET popped == search.queue[heap_max_index(search.queue)]
                  d == EntryDistance(popped)
                  current == popped[2]
              IN /\ d >= 0
                 /\ \A j \in 1..Len(search'.queue) : EntryDistance(search'.queue[j]) >= d
                 /\ search'.queue # <<>> =>
                       EntryDistance(search'.queue[heap_max_index(search'.queue)]) >= d
                 /\ \A l \in DOMAIN search'.backrefs \ DOMAIN search.backrefs :
                       /\ search'.backrefs[l].src = current
                       /\ \E j \in 1..Len(search'.queue) :
                             /\ search'.queue[j][2] = l
                             /\ EntryDistance(search'.queue[j])
                                   = d + lane_length(MapOf(map), current)
                                       + TurnLength(current, l)]_vars

\* C30 witness: four lanes have been popped and the start lane, reached
\* again through the cycle, waits in the queue at its recorded distance.
C30_Witness ==
    /\ search.pc = "loop"
    /\ search.start \in DOMAIN search.backrefs
    /\ search.queue = <<<<0 - 71, search.start>>>>

RECURSIVE ChainLeadsTo(_, _, _, _)
\* The turn sources from lane l on lead to start within n backreferences
ChainLeadsTo(l, start, backrefs, n) ==
    \/ l = start
    \/ /\ n > 0
       /\ l \in DOMAIN backrefs
       /\ ChainLeadsTo(backrefs[l].src, start, backrefs, n - 1)

\* The heap entry l has a backreference whose chain of sources leads to start
ReachedFromStart(l, start, backrefs) ==
    /\ l \in DOMAIN backrefs
    /\ backrefs[l].dst = l
    /\ ChainLeadsTo(backrefs[l].src, start, backrefs, Cardinality(DOMAIN backrefs))

\* The number of entries of the heap that hold lane l
TimesQueued(queue, l) == Cardinality({j \in 1..Len(queue) : queue[j][2] = l})

\* C31: first-reached wins.  In every round of the queue loop the
\* backreferences written before are kept as they are and a lane gets one
\* only if it had none; the round pushes one entry for each lane that got
\* its backreference in it and no other, so that a lane other than start
\* is enqueued at most once and start at most twice (the initial entry and
\* the one a turn leading back to it pushes); every entry popped, other
\* than the initial one, holds a lane with a backreference whose chain of
\* turn sources leads to start; walking the chain leaves it unchanged.
C31_FirstReachedWins ==
    [][/\ (search.pc = "loop" /\ search.queue # <<>>) =>
              LET i == heap_max_index(search.queue)
                  popped == search.queue[i]
                  rest == SubSeq(search.queue, 1, i - 1)
                          \o SubSeq(search.queue, i + 1, Len(search.queue))
                  start == search.start
              IN /\ popped # <<0, start>> =>
                        ReachedFromStart(popped[2], start, search.backrefs)
                 /\ \A l \in DrivingLanes :
                        /\ TimesQueued(search.queue, l) <= IF l = start THEN 2 ELSE 1
                        /\ (l # start /\ TimesQueued(search.queue, l) = 1) =>
                              l \in DOMAIN search.backrefs
                        /\ (l = start /\ TimesQueued(search.queue, l) = 2) =>
                              /\ l \in DOMAIN search.backrefs
                              /\ \E j \in 1..Len(search.queue) :
                                    search.queue[j] = <<0, start>>
                 /\ search'.pc = "loop" =>
                        LET written == DOMAIN search'.backrefs \ DOMAIN search.backrefs
                            pushed == SubSeq(search'.queue, Len(rest) + 1,
                                             Len(search'.queue))
                        IN /\ \A l \in DOMAIN search.backrefs :
                                  /\ l \in DOMAIN search'.backrefs
                                  /\ search'.backrefs[l] = search.backrefs[l]
                           /\ SubSeq(search'.queue, 1, Len(rest)) = rest
                           /\ Len(pushed) = Cardinality(written)
                           /\ \A l \in written : TimesQueued(pushed, l) = 1
                 /\ search'.pc = "rebuild" => search'.backrefs = search.backrefs
       /\ (search.pc = "rebuild" /\ search'.pc = "rebuild") =>
              search'.backrefs = search.backrefs]_vars

\* C31 witness: lane 4 was first reached from lane 2; lane 3, which also
\* leads to lane 4, has been popped since and lane 4 kept its backreference;
\* the turn from lane 4 back to the start lane has pushed start again.
C31_Witness ==
    /\ search.pc = "loop"
    /\ search.start = 1
    /\ {1, 3, 4, 5} \subseteq DOMAIN search.backrefs
    /\ search.backrefs[4].src = 2
    /\ TimesQueued(search.queue, 3) = 0
    /\ TimesQueued(search.queue, 1) = 1

\* C32: path_to_free_parking_spot is deterministic.  No step of the call
\* leaves a choice open: of two entries in the heap one is less than the
\* other, so the entry popped does not depend on how the heap arranges
\* them, also when lanes are at equal distance; the enumerator reports
\* each free spot once, in an order fixed by the store, so the first of
\* the spots at the least access distance is one spot; and a second run
\* of the call in the same store state with the same start lane, vehicle
\* and target returns the same path, spot and position.
C32_Deterministic ==
    /\ search.pc = "loop" =>
          \A i, j \in 1..Len(search.queue) :
             i # j => \/ heap_less(search.queue[i], search.queue[j])
                      \/ heap_less(search.queue[j], search.queue[i])
    /\ SearchHit =>
          /\ NoRepeats([i \in 1..Len(FoundAtHit) |-> FoundAtHit[i].spot])
          /\ search.result.spot = min_by_key(FoundAtHit).spot
    /\ search.pc = "done" =>
          search.result = path_to_free_parking_spot(search.start, Vehicle(search.vehicle),
                                                    search.target)

\* C32 witness: the lanes 2 and 3 were at the same distance from lane 1,
\* lane 3 had nothing free, and on lane 2 the two spots of lot 2 are free
\* at the same access distance; the first of them is returned.
C32_Witness ==
    /\ SearchHit
    /\ search.start = 1
    /\ HitLane = 2
    /\ search.result.spot = Lot(2, 0)
    /\ is_free(Lot(2, 1))
    /\ ~is_free(Lot(3, 0))

----------------------------------------------------------------------------
(* Properties of a spot's life *)

\* Where spot s is in its life
SpotState(s) ==
    CASE s \in DOMAIN occupants /\ s \in reserved_spots -> "reserved and occupied"
      [] s \in DOMAIN occupants -> "occupied"
      [] s \in reserved_spots -> "reserved"
      [] OTHER -> "free"

\* The events of the log that are about spot s, in the order of the log
EventsOf(log, s) == SelectSeq(log, LAMBDA e : e.spot = s)

\* The events the step appended to the log (none when the log was drained)
Appended == IF Len(events') > Len(events)
            THEN SubSeq(events', Len(events) + 1, Len(events'))
            ELSE <<>>

\* C33: the life of a spot.  Along a run that does not fail an indexed
\* spot is free, reserved or occupied and changes only from free to
\* reserved in a reserve_spot of it, from reserved to occupied in an
\* add_parked_car on it, which logs its 'reached', and from occupied to
\* free in a remove_parked_car on it, which logs its 'left'; no other step
\* logs an event about it.  Hence it is never occupied straight from free,
\* its events alternate 'reached' and 'left' (in the undrained log too, the
\* newest of them telling whether it is occupied), and every 'reached'
\* comes after a reserve_spot made after the previous 'left'.
C33_SpotLifecycle ==
    [][(~failed /\ ~failed') =>
          \A s \in IndexedSpots :
             LET before == SpotState(s)
                 after == SpotState(s)'
                 about == EventsOf(Appended, s)
                 log == EventsOf(events', s)
             IN /\ after \in {"free", "reserved", "occupied"}
                /\ \/ /\ before = after
                      /\ about = <<>>
                   \/ /\ before = "free" /\ after = "reserved"
                      /\ CalledWith("reserve_spot", 0, s)
                      /\ about = <<>>
                   \/ /\ before = "reserved" /\ after = "occupied"
                      /\ last'.op = "add_parked_car" /\ last'.spot = s
                      /\ about = <<CarReachedParkingSpot(last'.car, s)>>
                   \/ /\ before = "occupied" /\ after = "free"
                      /\ last'.op = "remove_parked_car" /\ last'.spot = s
                      /\ about = <<CarLeftParkingSpot(last'.car, s)>>
                /\ \A i \in 1..(Len(log) - 1) : log[i].ev # log[i + 1].ev
                /\ log # <<>> =>
                      (log[Len(log)].ev = "CarReachedParkingSpot" <=> after = "occupied")]_vars

\* C33 witness: the log holds the 'left' of a spot followed by its next
\* 'reached': the spot was freed, reserved again and is occupied again.
C33_Witness ==
    /\ ~failed
    /\ \E s \in IndexedSpots :
          /\ Len(events) = 2
          /\ events[1].ev = "CarLeftParkingSpot" /\ events[1].spot = s
          /\ events[2].ev = "CarReachedParkingSpot" /\ events[2].spot = s
          /\ SpotState(s) = "occupied"

----------------------------------------------------------------------------
(* Properties of the direct lookups *)

\* C34: in every state reached without a failure get_car_at_spot(s) does
\* not fail; it returns nothing when s is free or only reserved and
\* otherwise the ParkedCar whose spot is s and whose vehicle is
\* occupants[s]; lookup_parked_car(v) and get_owner_of_car(v) return
\* nothing for a vehicle that is not parked.
C34_LookupsNeverFail ==
    ~failed =>
        /\ \A s \in SpotValues :
              /\ ~query_panics("get_car_at_spot", <<s>>)
              /\ get_car_at_spot(s) # [panic |-> TRUE]
              /\ s \notin DOMAIN occupants => get_car_at_spot(s) = None
              /\ s \in DOMAIN occupants =>
                    /\ get_car_at_spot(s).spot = s
                    /\ get_car_at_spot(s).vehicle.id = occupants[s]
        /\ \A v \in CarIDs \ DOMAIN parked_cars :
              /\ ~query_panics("lookup_parked_car", <<v>>)
              /\ ~query_panics("get_owner_of_car", <<v>>)
              /\ lookup_parked_car(v) = None
              /\ get_owner_of_car(v) = None

----------------------------------------------------------------------------
(* Properties of the failing calls *)

\* The step is a call of op that fails
FailsIn(op) == ~failed /\ failed' /\ last'.op = op

\* C35 as stated: when reserve_spot, add_parked_car or remove_parked_car
\* fails, parked_cars, occupants, reserved_spots and events are at the
\* point of failure as they were before the call.
C35_NothingChangedAtFailure ==
    [][(FailsIn("reserve_spot") \/ FailsIn("add_parked_car") \/ FailsIn("remove_parked_car"))
          => UNCHANGED <<parked_cars, occupants, reserved_spots, events>>]_vars

\* C35 amended: a failing call stops at the first precondition that does
\* not hold, with the changes made before it.  reserve_spot of a spot that
\* is not free fails with nothing changed; of a free spot that does not
\* exist, with the reservation inserted.  add_parked_car fails with its
\* 'reached' event logged; on a spot without reservation nothing else has
\* changed; on a reserved spot, for a vehicle that is already parked, the
\* reservation is consumed and the vehicle recorded as the spot's occupant.
\* remove_parked_car of a vehicle that is not parked fails with nothing
\* changed; of a parked vehicle and a spot without occupant, with the
\* vehicle's parked_cars entry removed.  No failing call changes anything
\* else.
C35_ChangedAtFailure ==
    [][/\ FailsIn("reserve_spot") =>
             /\ UNCHANGED <<parked_cars, occupants, events>>
             /\ IF is_free(last'.spot)
                THEN /\ ~spot_exists(last'.spot)
                     /\ reserved_spots' = reserved_spots \cup {last'.spot}
                     /\ reserved_spots' # reserved_spots
                ELSE UNCHANGED reserved_spots
       /\ FailsIn("add_parked_car") =>
             /\ events' = Append(events, CarReachedParkingSpot(last'.car, last'.spot))
             /\ UNCHANGED parked_cars
             /\ IF last'.spot \in reserved_spots
                THEN /\ last'.car \in DOMAIN parked_cars
                     /\ reserved_spots' = reserved_spots \ {last'.spot}
                     /\ last'.spot \notin DOMAIN occupants
                     /\ occupants' = MapPut(occupants, last'.spot, last'.car)
                ELSE UNCHANGED <<reserved_spots, occupants>>
       /\ FailsIn("remove_parked_car") =>
             /\ UNCHANGED <<occupants, reserved_spots, events>>
             /\ IF last'.car \in DOMAIN parked_cars
                THEN /\ last'.spot \notin DOMAIN occupants
                     /\ parked_cars' = MapRemove(parked_cars, last'.car)
                ELSE UNCHANGED parked_cars]_vars

\* C35 witness: an add_parked_car for a vehicle that is parked elsewhere
\* has failed on a reserved spot: the reservation is gone, the vehicle is
\* the spot's occupant and its 'reached' is the newest event.
C35_Witness ==
    /\ failed
    /\ last.op = "add_parked_car"
    /\ last.spot \notin reserved_spots
    /\ last.spot \in DOMAIN occupants
    /\ occupants[last.spot] = last.car
    /\ last.car \in DOMAIN parked_cars
    /\ parked_cars[last.car].spot # last.spot
    /\ events # <<>>
    /\ events[Len(events)] = CarReachedParkingSpot(last.car, last.spot)

====
